---- MODULE Spec2Model ----
(***************************************************************************)
(* State machine of the writeapp terminal editor (src/src/app.rs): the     *)
(* Mode / EditorMode / PopupAction hierarchy, the primary and popup text   *)
(* buffers, the flow timer, the message overlay and the storage            *)
(* collaborator (src/src/storage.rs).                                      *)
(*                                                                         *)
(* Text is a sequence of one-character strings; a buffer is a sequence of  *)
(* lines.  Rows and columns are 0-based as in the code.  An Instant is     *)
(* kept as the time elapsed since it was taken (in seconds, saturating at  *)
(* the largest threshold it is compared with); None is -1.                 *)
(***************************************************************************)
EXTENDS Integers, Sequences, FiniteSets, TLC

\* ------------------------------------------------------------------ bounds
MaxText   == 1   \* a key inserts text only while the buffer holds fewer units
MaxUndo   == 1   \* edit-history snapshots kept by a buffer
MaxUtc    == 3   \* wall-clock readings (flow timestamps, draft names) in one run
MaxFaults == 1   \* storage calls that fail for an external reason in one run
MaxWrites == 1   \* handlers that change the drafts directory in one run
MaxLine   == 95  \* characters a buffer holding a long line may grow to
MaxName   == 2   \* characters of a name typed into the popup
MaxEvents == 2   \* terminal events waiting to be read

\* ------------------------------------------------------- program constants
HARD_WRAP_LIMIT  == 90
SPLASH_TIMEOUT   == 30
MESSAGE_TTL      == 3
DEFAULT_FLOW_SECS == 600
FLOW_MINS_F      == 10
FLOW_MINS_5      == 5
SECS_PER_MIN     == 60
tick_rate        == 250

None == -1
NoSel == <<>>

\* Option<String>
NoName == <<>>
Some(x) == <<x>>

Min(a, b) == IF a < b THEN a ELSE b
Max(a, b) == IF a > b THEN a ELSE b

\* ------------------------------------------------------------------ strings
Alphabet ==
    <<"\n", " ", ".", "0", "1", "2", "3", "4", "5", "6", "7", "8", "9",
      "_", "a", "d", "f", "m", "r", "t", "x", "z">>

\* byte order of the characters used
Ord(c) == CHOOSE i \in 1..Len(Alphabet) : Alphabet[i] = c

IsSpace(c) == c \in {" ", "\n"}

RECURSIVE StrLess(_, _)
StrLess(a, b) ==
    IF Len(b) = 0 THEN FALSE
    ELSE IF Len(a) = 0 THEN TRUE
    ELSE IF Ord(a[1]) # Ord(b[1]) THEN Ord(a[1]) < Ord(b[1])
    ELSE StrLess(Tail(a), Tail(b))

RECURSIVE Join(_, _)
Join(ls, sep) ==
    IF Len(ls) = 0 THEN <<>>
    ELSE IF Len(ls) = 1 THEN ls[1]
    ELSE ls[1] \o sep \o Join(Tail(ls), sep)

RECURSIVE SplitNL(_)
SplitNL(s) ==
    IF \E i \in 1..Len(s) : s[i] = "\n"
    THEN LET i == CHOOSE i \in 1..Len(s) :
                     s[i] = "\n" /\ \A j \in 1..(i-1) : s[j] # "\n"
         IN <<SubSeq(s, 1, i-1)>> \o SplitNL(SubSeq(s, i+1, Len(s)))
    ELSE <<s>>

\* str::lines(): split at line breaks, a final empty piece is dropped
StrLines(s) ==
    LET p == SplitNL(s)
    IN IF p[Len(p)] = <<>> THEN SubSeq(p, 1, Len(p)-1) ELSE p

RECURSIVE TrimStart(_)
TrimStart(s) == IF Len(s) > 0 /\ IsSpace(s[1]) THEN TrimStart(Tail(s)) ELSE s

RECURSIVE TrimEnd(_)
TrimEnd(s) ==
    IF Len(s) > 0 /\ IsSpace(s[Len(s)]) THEN TrimEnd(SubSeq(s, 1, Len(s)-1)) ELSE s

Trim(s) == TrimEnd(TrimStart(s))

Contains(s, c) == \E i \in 1..Len(s) : s[i] = c

RECURSIVE SortedSeq(_)
SortedSeq(S) ==
    IF S = {} THEN <<>>
    ELSE LET m == CHOOSE x \in S : \A y \in S \ {x} : StrLess(x, y)
         IN <<m>> \o SortedSeq(S \ {m})

\* --------------------------------------------------------------- text buffer
\* tui_textarea::TextArea as used by app.rs
RECURSIVE Offset(_, _, _)
Offset(lines, row, col) ==
    IF row = 0 THEN col ELSE Len(lines[1]) + 1 + Offset(Tail(lines), row-1, col)

RECURSIVE PosAt(_, _)
PosAt(lines, off) ==
    IF Len(lines) = 1 \/ off <= Len(lines[1]) THEN <<0, off>>
    ELSE LET p == PosAt(Tail(lines), off - Len(lines[1]) - 1)
         IN <<p[1] + 1, p[2]>>

Text(ta) == Join(ta.lines, <<"\n">>)
CurOff(ta) == Offset(ta.lines, ta.cursor[1], ta.cursor[2])
LineAt(ta, row) == ta.lines[row + 1]

TextAreaNew(lines) ==
    [lines  |-> IF lines = <<>> THEN << <<>> >> ELSE lines,
     cursor |-> <<0, 0>>,
     sel    |-> NoSel,
     yank   |-> <<>>,
     hist   |-> <<>>,
     block  |-> "None"]

TextAreaDefault == TextAreaNew(<<>>)

\* set_block(Block::default().borders(..).title(t))
set_block(ta, t) == [ta EXCEPT !.block = t]

PushHist(ta, cur) ==
    LET h == Append(ta.hist, [lines |-> ta.lines, cursor |-> cur])
    IN IF Len(h) > MaxUndo THEN Tail(h) ELSE h

\* the edit primitive: new text, new cursor offset, cursor recorded for undo
Edit(ta, flat, off, cur) ==
    LET ls == SplitNL(flat)
    IN [ta EXCEPT !.lines = ls, !.cursor = PosAt(ls, off), !.hist = PushHist(ta, cur)]

SelRange(ta) ==
    IF ta.sel = NoSel THEN <<>>
    ELSE LET a == Offset(ta.lines, ta.sel[1], ta.sel[2])
             b == CurOff(ta)
         IN IF a = b THEN <<>> ELSE IF a < b THEN <<a, b>> ELSE <<b, a>>

start_selection(ta) == [ta EXCEPT !.sel = ta.cursor]

cancel_selection(ta) == [ta EXCEPT !.sel = NoSel]

\* copy(): takes the selection; the register changes only for a non-empty one
copy(ta) ==
    LET r == SelRange(ta)
    IN [ta EXCEPT !.sel = NoSel,
                  !.yank = IF r = <<>> THEN @ ELSE SubSeq(Text(ta), r[1]+1, r[2])]

yank_text(ta) == ta.yank

delete_selection(ta) ==
    LET r == SelRange(ta)
        t == [ta EXCEPT !.sel = NoSel]
    IN IF r = <<>> THEN t
       ELSE Edit(t, SubSeq(Text(ta), 1, r[1]) \o SubSeq(Text(ta), r[2]+1, Len(Text(ta))),
                 r[1], PosAt(ta.lines, r[2]))

Room(ta, n) == Len(Text(ta)) + n <= MaxText

insert_str(ta, s) ==
    LET t == delete_selection(ta)
        f == Text(t)
        o == CurOff(t)
    IN IF s = <<>> THEN t
       ELSE Edit(t, SubSeq(f, 1, o) \o s \o SubSeq(f, o+1, Len(f)), o + Len(s), t.cursor)

insert_char(ta, c) == insert_str(ta, <<c>>)

insert_newline(ta) == insert_str(ta, <<"\n">>)

delete_char(ta) ==
    LET t == delete_selection(ta)
        f == Text(t)
        o == CurOff(t)
    IN IF SelRange(ta) # <<>> THEN t
       ELSE IF o = 0 THEN t
       ELSE Edit(t, SubSeq(f, 1, o-1) \o SubSeq(f, o+1, Len(f)), o-1, t.cursor)

delete_next_char(ta) ==
    LET t == delete_selection(ta)
        f == Text(t)
        o == CurOff(t)
    IN IF SelRange(ta) # <<>> THEN t
       ELSE IF o = Len(f) THEN t
       ELSE Edit(t, SubSeq(f, 1, o) \o SubSeq(f, o+2, Len(f)), o, PosAt(t.lines, o+1))

undo(ta) ==
    IF ta.hist = <<>> THEN ta
    ELSE LET h == ta.hist[Len(ta.hist)]
         IN [ta EXCEPT !.lines = h.lines, !.cursor = h.cursor, !.sel = NoSel,
                       !.hist = SubSeq(ta.hist, 1, Len(ta.hist)-1)]

CharKind(c) == IF IsSpace(c) THEN "Space" ELSE IF c \in {".", "_"} THEN "Punct" ELSE "Other"

find_word_start_forward(line, col) ==
    LET C == {c \in (col+1)..(Len(line)-1) :
                 /\ CharKind(line[c+1]) # "Space"
                 /\ CharKind(line[c]) # CharKind(line[c+1])}
    IN IF C = {} THEN None ELSE CHOOSE c \in C : \A d \in C : c <= d

find_word_start_backward(line, col) ==
    LET P == {p \in 0..(col-1) :
                 /\ CharKind(line[p+1]) # "Space"
                 /\ (p = 0 \/ CharKind(line[p]) # CharKind(line[p+1]))}
    IN IF P = {} THEN None ELSE CHOOSE p \in P : \A q \in P : p >= q

\* CursorMove applied to (lines, cursor)
MoveTo(ta, m) ==
    LET row == ta.cursor[1]
        col == ta.cursor[2]
        n   == Len(ta.lines)
        ln  == LineAt(ta, row)
    IN CASE m = "Back" ->
              IF col > 0 THEN <<row, col-1>>
              ELSE IF row > 0 THEN <<row-1, Len(LineAt(ta, row-1))>> ELSE <<row, col>>
         [] m = "Forward" ->
              IF col < Len(ln) THEN <<row, col+1>>
              ELSE IF row + 1 < n THEN <<row+1, 0>> ELSE <<row, col>>
         [] m = "Up" ->
              IF row > 0 THEN <<row-1, Min(col, Len(LineAt(ta, row-1)))>> ELSE <<row, col>>
         [] m = "Down" ->
              IF row + 1 < n THEN <<row+1, Min(col, Len(LineAt(ta, row+1)))>> ELSE <<row, col>>
         [] m = "WordForward" ->
              LET c == find_word_start_forward(ln, col)
              IN IF c # None THEN <<row, c>>
                 ELSE IF row + 1 < n THEN <<row+1, 0>> ELSE <<row, Len(ln)>>
         [] m = "WordBack" ->
              LET c == find_word_start_backward(ln, col)
              IN IF c # None THEN <<row, c>>
                 ELSE IF row > 0 THEN <<row-1, Len(LineAt(ta, row-1))>> ELSE <<row, 0>>
         [] m = "Bottom" -> <<n-1, Min(col, Len(LineAt(ta, n-1)))>>
         [] m = "End" -> <<row, Len(ln)>>

\* move_cursor keeps an existing selection
move_cursor(ta, m) == [ta EXCEPT !.cursor = MoveTo(ta, m)]

\* CursorMove::Jump(row, col), clamped to the text
jump(ta, r, c) ==
    LET row == Min(r, Len(ta.lines) - 1)
    IN [ta EXCEPT !.cursor = <<row, Min(c, Len(LineAt(ta, row)))>>]

\* A character outside ASCII is named by its code point; U+00E9 takes two
\* bytes in the UTF-8 text that String::len and the slice below count.
TwoByteChar == "U+E9"

\* str::len() of the first col characters of a line
ByteIdx(line, col) == col + Cardinality({i \in 1..col : line[i] = TwoByteChar})

ByteLen(line) == ByteIdx(line, Len(line))

\* str::is_char_boundary
IsCharBoundary(line, b) == \E c \in 0..Len(line) : ByteIdx(line, c) = b

\* &line[..HARD_WRAP_LIMIT] panics when the limit falls inside a character
check_wrap_panics(ta) ==
    LET line == LineAt(ta, ta.cursor[1])
    IN ByteLen(line) > HARD_WRAP_LIMIT /\ ~IsCharBoundary(line, HARD_WRAP_LIMIT)

\* search_slice.rfind(' '): byte indices of the spaces of the slice
SpaceIdxs(line) ==
    {ByteIdx(line, i) : i \in {j \in 0..(Len(line)-1) :
                                  line[j+1] = " " /\ ByteIdx(line, j) < HARD_WRAP_LIMIT}}

\* check_wrap restoring the cursor without the step for the removed space
check_wrap_off_by_one(ta) ==
    LET row  == ta.cursor[1]
        col  == ta.cursor[2]
        line == LineAt(ta, row)
    IN IF ByteLen(line) > HARD_WRAP_LIMIT
       THEN LET S == SpaceIdxs(line)
            IN IF S = {} THEN ta
               ELSE LET space_idx == CHOOSE i \in S : \A j \in S : i >= j
                        t3 == insert_newline(delete_next_char(jump(ta, row, space_idx)))
                    IN IF col > space_idx
                       THEN jump(t3, row + 1, Max(col - space_idx, 0))
                       ELSE t3
       ELSE ta

\* check_wrap splitting a line as soon as it reaches the limit
check_wrap_at_limit(ta) ==
    LET row  == ta.cursor[1]
        col  == ta.cursor[2]
        line == LineAt(ta, row)
    IN IF ByteLen(line) >= HARD_WRAP_LIMIT
       THEN LET S == SpaceIdxs(line)
            IN IF S = {} THEN ta
               ELSE LET space_idx == CHOOSE i \in S : \A j \in S : i >= j
                        t3 == insert_newline(delete_next_char(jump(ta, row, space_idx)))
                    IN IF col > space_idx
                       THEN jump(t3, row + 1, Max(Max(col - space_idx, 0) - 1, 0))
                       ELSE t3
       ELSE ta

\* App::check_wrap; the byte index is handed to Jump as a column
check_wrap(ta) ==
    LET row  == ta.cursor[1]
        col  == ta.cursor[2]
        line == LineAt(ta, row)
    IN IF ByteLen(line) > HARD_WRAP_LIMIT
       THEN LET S == SpaceIdxs(line)
            IN IF S = {} THEN ta
               ELSE LET space_idx == CHOOSE i \in S : \A j \in S : i >= j
                        t1 == jump(ta, row, space_idx)
                        t2 == delete_next_char(t1)
                        t3 == insert_newline(t2)
                    IN IF col > space_idx
                       THEN jump(t3, row + 1, Max(Max(col - space_idx, 0) - 1, 0))
                       ELSE t3
       ELSE ta

\* --------------------------------------------------------------------- keys
K(c) == [code |-> c, ctrl |-> FALSE]
Ctrl(c) == [code |-> c, ctrl |-> TRUE]

SpecialCodes == {"Esc", "Enter", "Up", "Down", "Delete", "Backspace"}
CharCodes ==
    {"q", "f", "5", "1", "s", "n", "h", "d", "r", "e", "v", "c", "i", "j", "k",
     "l", "w", "b", "x", "u", "y", "a", "p", " ", "z", "."}
CtrlCodes == {"s", "f", "p", "l", "r"}
TypeChars == {"a", " "}

Keys == {K(c) : c \in SpecialCodes \cup CharCodes} \cup {Ctrl(c) : c \in CtrlCodes}

IsChar(k) == k.code \in CharCodes

\* TextArea::input with the default key map; arrow keys without Shift drop
\* the selection, keys without a mapping change nothing
input(ta, k) ==
    IF k.ctrl
    THEN CASE k.code = "f" -> move_cursor(cancel_selection(ta), "Forward")
           [] k.code = "p" -> move_cursor(cancel_selection(ta), "Up")
           [] OTHER -> ta
    ELSE CASE IsChar(k) -> insert_char(ta, k.code)
           [] k.code = "Enter" -> insert_newline(ta)
           [] k.code = "Backspace" -> delete_char(ta)
           [] k.code = "Delete" -> delete_next_char(ta)
           [] k.code = "Up" -> move_cursor(cancel_selection(ta), "Up")
           [] k.code = "Down" -> move_cursor(cancel_selection(ta), "Down")
           [] OTHER -> ta

\* a key that adds text is taken only from TypeChars and only while there is room
Typable(ta, k) ==
    IF k.ctrl THEN TRUE
    ELSE /\ IsChar(k) => (k.code \in TypeChars /\ Room(ta, 1))
         /\ k.code = "Enter" => Room(ta, 1)

\* ------------------------------------------------------------------ storage
\* The drafts directory is a function from file name to content, the flow
\* history file a sequence of FlowEntry, settings.json a Settings record.
\* Every call may fail for an external reason (ok = FALSE).
CurrentVersion == "v1"

Ext(e) == IF e = "txt" THEN <<"t", "x", "t">> ELSE <<"m", "d">>

Digits == <<"0", "1", "2", "3", "4", "5", "6", "7", "8", "9">>

\* Utc::now().format("%Y-%m-%d-%H%M%S"), one reading of the wall clock
Stamp(n) == <<Digits[(n % 10) + 1]>>

Put(f, name, content) ==
    [n \in (DOMAIN f) \cup {name} |-> IF n = name THEN content ELSE f[n]]

Remove(f, name) == [n \in (DOMAIN f) \ {name} |-> f[n]]

\* Vec::sort_by(|a, b| b.timestamp.cmp(&a.timestamp)): stable, newest first
RECURSIVE InsertDesc(_, _)
InsertDesc(sorted, e) ==
    IF sorted = <<>> THEN <<e>>
    ELSE IF sorted[1].timestamp >= e.timestamp
         THEN <<sorted[1]>> \o InsertDesc(Tail(sorted), e)
         ELSE <<e>> \o sorted

RECURSIVE SortDesc(_)
SortDesc(h) ==
    IF h = <<>> THEN <<>>
    ELSE InsertDesc(SortDesc(SubSeq(h, 1, Len(h)-1)), h[Len(h)])

\* save_flow_entry without the sort
Storage_save_flow_entry_unsorted(d, entry) ==
    [d EXCEPT !.history = Append(d.history, entry)]

Storage_save_flow_entry(d, entry) ==
    [d EXCEPT !.history = SortDesc(Append(d.history, entry))]

\* fs::write and fs::rename fail on a path that names a directory
IsFileName(name) == name \notin {<<".">>, <<".", ".">>}

Storage_save_draft(d, filename, content) ==
    [d EXCEPT !.drafts = Put(d.drafts, filename, content)]

Storage_list_drafts(d) == SortedSeq(DOMAIN d.drafts)

Storage_rename_draft(d, old, new) ==
    [d EXCEPT !.drafts = Put(Remove(d.drafts, old), new, d.drafts[old])]

Storage_delete_draft(d, filename) ==
    [d EXCEPT !.drafts = Remove(d.drafts, filename)]

Storage_save_settings(d, settings) == [d EXCEPT !.settings = settings]

\* ------------------------------------------------------------ spell checker
Dictionary == {<<"a">>}

RECURSIVE Words(_)
Words(s) ==
    LET t == TrimStart(s)
    IN IF t = <<>> THEN {}
       ELSE LET n == CHOOSE n \in 1..Len(t) :
                        /\ \A i \in 1..n : ~IsSpace(t[i])
                        /\ (n = Len(t) \/ IsSpace(t[n+1]))
            IN {SubSeq(t, 1, n)} \cup Words(SubSeq(t, n+1, Len(t)))

check_text(text) == {w \in Words(text) : w \notin Dictionary}

\* -------------------------------------------------------------------- state
VARIABLES
    app,      \* struct App
    disk,     \* what Storage reads and writes
    utc,      \* readings of the wall clock taken so far
    faults,   \* storage calls that have failed for an external reason
    writes,   \* handlers that have changed the drafts directory
    phase     \* "cli" before main has built the App's starting mode, then "run";
              \* "panic" once a handler has panicked and the process is gone,
              \* "done" once run_app's loop has ended

\* run_app's own state, followed by the steps of SpecLoop only; the other
\* specifications take the loop one event at a time and leave it alone
VARIABLES
    last_tick,  \* last_tick.elapsed() in ms, saturating at tick_rate
    events      \* the terminal events not yet read, oldest first:
                \* <<k>> is Event::Key(k), <<>> any other event

vars == <<app, disk, utc, faults, writes, phase, last_tick, events>>

Msg(kind, arg, n) == [kind |-> kind, arg |-> arg, n |-> n]
NoMsg == Msg("None", <<>>, 0)

NoAction == [kind |-> "None", payload |-> <<>>]
RenameDraft(name) == [kind |-> "RenameDraft", payload |-> name]
NewDraftFromSelection(content) == [kind |-> "NewDraftFromSelection", payload |-> content]
AppendToDraftFromSelection == [kind |-> "AppendToDraftFromSelection", payload |-> <<>>]

\* the state a handler works on
World == [app |-> app, disk |-> disk, utc |-> utc, faults |-> faults, panicked |-> FALSE]

set_message(a, m) == [a EXCEPT !.message = m, !.message_time = 0]

SetMsg(w, kind, arg, n) == [w EXCEPT !.app = set_message(@, Msg(kind, arg, n))]

Fault(w) == [w EXCEPT !.faults = @ + 1]

\* Storage::save_settings with the result dropped (let _ =)
SaveSettingsQuiet(w, ok) ==
    IF ok THEN [w EXCEPT !.disk = Storage_save_settings(@, w.app.settings)]
    ELSE Fault(w)

\* Storage::save_settings, a failure goes to the message overlay
SaveSettings(w, ok) ==
    IF ok THEN [w EXCEPT !.disk = Storage_save_settings(@, w.app.settings)]
    ELSE SetMsg(Fault(w), "Error saving settings", <<>>, 0)

load_history(w, ok) ==
    IF ok
    THEN [w EXCEPT !.app.history = w.disk.history,
                   !.app.history_state = IF w.disk.history # <<>> THEN 0 ELSE None]
    ELSE SetMsg(Fault(w), "Failed to load history", <<>>, 0)

load_drafts(w, ok) ==
    IF ok
    THEN LET d == Storage_list_drafts(w.disk)
         IN [w EXCEPT !.app.drafts = d,
                      !.app.drafts_state = IF d # <<>> THEN 0 ELSE None]
    ELSE SetMsg(Fault(w), "Failed to load drafts", <<>>, 0)

start_flow(w, duration_mins) ==
    [w EXCEPT !.app.mode = "Flow",
              !.app.preview_mode_active = FALSE,
              !.app.flow_duration = duration_mins * SECS_PER_MIN,
              !.app.flow_remaining = duration_mins * SECS_PER_MIN,
              !.app.flow_start = 0,
              !.app.textarea = TextAreaDefault]

\* save_flow_entry without the test for an empty trimmed text
save_flow_entry_untrimmed(w, ok) ==
    LET text == Text(w.app.textarea)
        entry == [timestamp |-> w.utc,
                  duration_minutes |-> w.app.flow_duration \div SECS_PER_MIN,
                  text |-> text]
    IN IF ok
       THEN SetMsg([w EXCEPT !.disk = Storage_save_flow_entry(@, entry),
                             !.utc = @ + 1],
                   "Saved flow session.", <<>>, 0)
       ELSE SetMsg([Fault(w) EXCEPT !.utc = @ + 1], "Error saving", <<>>, 0)

save_flow_entry(w, ok) ==
    LET text == Text(w.app.textarea)
        entry == [timestamp |-> w.utc,
                  duration_minutes |-> w.app.flow_duration \div SECS_PER_MIN,
                  text |-> text]
    IN IF Trim(text) = <<>> THEN w
       ELSE IF ok
            THEN SetMsg([w EXCEPT !.disk = Storage_save_flow_entry(@, entry),
                                  !.utc = @ + 1],
                        "Saved flow session.", <<>>, 0)
            ELSE SetMsg([Fault(w) EXCEPT !.utc = @ + 1], "Error saving", <<>>, 0)

end_flow(w, save, ok) ==
    LET w1 == IF save THEN save_flow_entry(w, ok) ELSE w
    IN SetMsg([w1 EXCEPT !.app.mode = "Menu", !.app.flow_start = None],
              "Flow session ended.", <<>>, 0)

\* ------------------------------------------------------- handle_key_event
Selected(list, state) == state # None /\ state < Len(list)

\* the Splash arm without the record of the version seen
KeySplashArmKeepsVersion(w, ok) ==
    SaveSettingsQuiet([w EXCEPT !.app.mode = "Menu",
                                !.app.splash_start = None], ok)

KeySplashArm(w, ok) ==
    SaveSettingsQuiet([w EXCEPT !.app.mode = "Menu",
                                !.app.splash_start = None,
                                !.app.settings.last_seen_version = w.app.version], ok)

KeyMenuArm(w, k, ok) ==
    CASE k.code = "q" -> [w EXCEPT !.app.should_quit = TRUE]
      [] k.code = "f" -> start_flow(w, FLOW_MINS_F)
      [] k.code = "5" -> start_flow(w, FLOW_MINS_5)
      [] k.code = "s" -> [w EXCEPT !.app.mode = "Settings"]
      [] k.code = "n" ->
           SetMsg([w EXCEPT !.app.mode = "Writing",
                            !.app.textarea = TextAreaDefault,
                            !.app.preview_mode_active = FALSE],
                  "Writing mode", <<>>, 0)
      [] k.code = "h" -> load_history([w EXCEPT !.app.mode = "FlowHistory"], ok)
      [] k.code = "d" -> load_drafts([w EXCEPT !.app.mode = "Drafts"], ok)
      [] OTHER -> w

\* next_draft without the wrap to the first entry
next_draft_no_wrap(a) ==
    [a EXCEPT !.drafts_state = IF a.drafts_state = None THEN 0 ELSE a.drafts_state + 1]

next_draft(a) ==
    [a EXCEPT !.drafts_state =
        IF a.drafts_state = None THEN 0
        ELSE IF a.drafts # <<>>
             THEN IF a.drafts_state >= Max(Len(a.drafts) - 1, 0) THEN 0
                  ELSE a.drafts_state + 1
             ELSE 0]

previous_draft(a) ==
    [a EXCEPT !.drafts_state =
        IF a.drafts_state = None THEN 0
        ELSE IF a.drafts # <<>>
             THEN IF a.drafts_state = 0 THEN Max(Len(a.drafts) - 1, 0)
                  ELSE a.drafts_state - 1
             ELSE 0]

next_history(a) ==
    [a EXCEPT !.history_state =
        IF a.history_state = None THEN 0
        ELSE IF a.history_state >= Max(Len(a.history) - 1, 0) THEN 0
             ELSE a.history_state + 1]

previous_history(a) ==
    [a EXCEPT !.history_state =
        IF a.history_state = None THEN 0
        ELSE IF a.history_state = 0 THEN Max(Len(a.history) - 1, 0)
             ELSE a.history_state - 1]

\* Storage::load_draft: the file must exist and the read must succeed
Loadable(w, filename, ok) == ok /\ filename \in DOMAIN w.disk.drafts

LoadFault(w, filename, ok) == IF ok THEN w ELSE Fault(w)

\* the append branch without the assignment of current_draft_name
DraftsEnterAppendKeepsName(w, filename, ok) ==
    IF Loadable(w, filename, ok)
    THEN LET content == w.disk.drafts[filename]
             t0 == TextAreaNew(StrLines(content))
             t1 == move_cursor(move_cursor(t0, "Bottom"), "End")
             t2 == insert_str(t1, <<"\n">>)
         IN SetMsg([w EXCEPT !.app.textarea = t2,
                             !.app.mode = "Writing",
                             !.app.popup_action = NoAction],
                   "Opened draft (Paste with 'p' if you yanked selection)", <<>>, 0)
    ELSE LoadFault(w, filename, ok)

\* the append branch without the inserted line break
DraftsEnterAppendNoBreak(w, filename, ok) ==
    IF Loadable(w, filename, ok)
    THEN LET content == w.disk.drafts[filename]
             t0 == TextAreaNew(StrLines(content))
             t1 == move_cursor(move_cursor(t0, "Bottom"), "End")
         IN SetMsg([w EXCEPT !.app.textarea = t1,
                             !.app.mode = "Writing",
                             !.app.current_draft_name = Some(filename),
                             !.app.popup_action = NoAction],
                   "Opened draft (Paste with 'p' if you yanked selection)", <<>>, 0)
    ELSE LoadFault(w, filename, ok)

\* the append branch leaving the pending action in place
DraftsEnterAppendKeepsAction(w, filename, ok) ==
    IF Loadable(w, filename, ok)
    THEN LET content == w.disk.drafts[filename]
             t0 == TextAreaNew(StrLines(content))
             t1 == move_cursor(move_cursor(t0, "Bottom"), "End")
             t2 == insert_str(t1, <<"\n">>)
         IN SetMsg([w EXCEPT !.app.textarea = t2,
                             !.app.mode = "Writing",
                             !.app.current_draft_name = Some(filename)],
                   "Opened draft (Paste with 'p' if you yanked selection)", <<>>, 0)
    ELSE LoadFault(w, filename, ok)

\* Drafts, Enter, with AppendToDraftFromSelection pending
DraftsEnterAppend(w, filename, ok) ==
    IF Loadable(w, filename, ok)
    THEN LET content == w.disk.drafts[filename]
             t0 == TextAreaNew(StrLines(content))
             t1 == move_cursor(move_cursor(t0, "Bottom"), "End")
             t2 == insert_str(t1, <<"\n">>)
         IN SetMsg([w EXCEPT !.app.textarea = t2,
                             !.app.mode = "Writing",
                             !.app.current_draft_name = Some(filename),
                             !.app.popup_action = NoAction],
                   "Opened draft (Paste with 'p' if you yanked selection)", <<>>, 0)
    ELSE LoadFault(w, filename, ok)

\* Drafts, Enter, normal open
DraftsEnterOpen(w, filename, ok) ==
    IF Loadable(w, filename, ok)
    THEN LET content == w.disk.drafts[filename]
         IN SetMsg([w EXCEPT !.app.textarea = TextAreaNew(StrLines(content)),
                             !.app.mode = "Writing",
                             !.app.current_draft_name = Some(filename)],
                   "Loaded", filename, 0)
    ELSE SetMsg(LoadFault(w, filename, ok), "Error loading draft", <<>>, 0)

OpenRenamePopup(w, filename) ==
    [w EXCEPT !.app.mode = "PopupInput",
              !.app.popup_action = RenameDraft(filename),
              !.app.popup_textarea =
                  insert_str(set_block(TextAreaDefault, " Rename to: "), filename)]

KeyDraftsArm(w, k, ok1, ok2) ==
    LET a == w.app
        sel == Selected(a.drafts, a.drafts_state)
        filename == a.drafts[a.drafts_state + 1]
    IN CASE k.code = "Esc" ->
              [w EXCEPT !.app.mode = "Menu", !.app.popup_action = NoAction]
         [] k.code = "Down" -> [w EXCEPT !.app = next_draft(@)]
         [] k.code = "Up" -> [w EXCEPT !.app = previous_draft(@)]
         [] k.code = "Enter" ->
              IF ~sel THEN w
              ELSE IF a.popup_action.kind = "AppendToDraftFromSelection"
                   THEN DraftsEnterAppend(w, filename, ok1)
                   ELSE DraftsEnterOpen(w, filename, ok1)
         [] k.code = "r" -> IF sel THEN OpenRenamePopup(w, filename) ELSE w
         [] k.code \in {"d", "Delete"} ->
              IF ~sel THEN w
              ELSE IF ok1
                   THEN load_drafts(
                            SetMsg([w EXCEPT !.disk = Storage_delete_draft(@, filename)],
                                   "Deleted draft", <<>>, 0), ok2)
                   ELSE SetMsg(Fault(w), "Error deleting", <<>>, 0)
         [] OTHER -> w

\* the Settings arm with 'e' always choosing md
KeySettingsArmAlwaysMd(w, k, ok) ==
    CASE k.code \in {"Esc", "q"} -> [w EXCEPT !.app.mode = "Menu"]
      [] k.code = "e" ->
           SaveSettings([w EXCEPT !.app.settings.default_extension = "md"], ok)
      [] k.code = "v" ->
           SaveSettings([w EXCEPT !.app.settings.vim_mode = ~@], ok)
      [] k.code = "s" ->
           SaveSettings([w EXCEPT !.app.settings.show_splash_screen = ~@], ok)
      [] k.code = "c" ->
           SaveSettings([w EXCEPT !.app.settings.spellcheck_enabled = ~@], ok)
      [] OTHER -> w

KeySettingsArm(w, k, ok) ==
    CASE k.code \in {"Esc", "q"} -> [w EXCEPT !.app.mode = "Menu"]
      [] k.code = "e" ->
           SaveSettings([w EXCEPT !.app.settings.default_extension =
                                      IF @ = "txt" THEN "md" ELSE "txt"], ok)
      [] k.code = "v" ->
           SaveSettings([w EXCEPT !.app.settings.vim_mode = ~@], ok)
      [] k.code = "s" ->
           SaveSettings([w EXCEPT !.app.settings.show_splash_screen = ~@], ok)
      [] k.code = "c" ->
           SaveSettings([w EXCEPT !.app.settings.spellcheck_enabled = ~@], ok)
      [] OTHER -> w

\* SpellCheck left by any key
KeySpellCheckArmAnyKey(w, k) ==
    [w EXCEPT !.app.mode = "Writing", !.app.misspelled_words = <<>>]

KeySpellCheckArm(w, k) ==
    IF k.code \in {"Esc", "q"}
    THEN [w EXCEPT !.app.mode = "Writing", !.app.misspelled_words = <<>>]
    ELSE w

DraftPrefix == <<"d", "r", "a", "f", "t", "_">>

\* Writing, Ctrl+S
\* Ctrl+S without the binding of the buffer to the name saved under
WritingSaveUnbound(w, ok) ==
    LET a == w.app
        named == a.current_draft_name # NoName
        filename == IF named THEN a.current_draft_name[1]
                    ELSE DraftPrefix \o Stamp(w.utc) \o <<".">> \o Ext(a.settings.default_extension)
        w1 == IF named THEN w ELSE [w EXCEPT !.utc = @ + 1]
    IN IF ok
       THEN SetMsg([w1 EXCEPT !.disk = Storage_save_draft(@, filename, Text(a.textarea))],
                   "Saved", filename, 0)
       ELSE SetMsg(Fault(w1), "Error saving", <<>>, 0)

WritingSave(w, ok) ==
    LET a == w.app
        named == a.current_draft_name # NoName
        filename == IF named THEN a.current_draft_name[1]
                    ELSE DraftPrefix \o Stamp(w.utc) \o <<".">> \o Ext(a.settings.default_extension)
        w1 == IF named THEN w ELSE [w EXCEPT !.utc = @ + 1]
    IN IF ok
       THEN SetMsg([w1 EXCEPT !.disk = Storage_save_draft(@, filename, Text(a.textarea)),
                              !.app.current_draft_name = Some(filename)],
                   "Saved", filename, 0)
       ELSE SetMsg(Fault(w1), "Error saving", <<>>, 0)

WritingSpellCheck(w) ==
    IF w.app.settings.spellcheck_enabled
    THEN [w EXCEPT !.app.misspelled_words = SortedSeq(check_text(Text(w.app.textarea))),
                   !.app.mode = "SpellCheck"]
    ELSE w

WritingRename(w) ==
    IF w.app.current_draft_name # NoName
    THEN OpenRenamePopup(w, w.app.current_draft_name[1])
    ELSE SetMsg(w, "Save first to rename", <<>>, 0)

EditKey(w, k) ==
    LET t == input(w.app.textarea, k)
    IN IF check_wrap_panics(t)
       THEN [w EXCEPT !.panicked = TRUE]
       ELSE [w EXCEPT !.app.textarea = check_wrap(t)]

MoveKeys == {"h", "j", "k", "l", "w", "b"}

MoveOf(c) ==
    CASE c = "h" -> "Back" [] c = "j" -> "Down" [] c = "k" -> "Up"
      [] c = "l" -> "Forward" [] c = "w" -> "WordForward" [] c = "b" -> "WordBack"

WritingInsert(w, k) ==
    IF k.code = "Esc" THEN [w EXCEPT !.app.editor_mode = "Normal"] ELSE EditKey(w, k)

\* Normal, with an Escape that keeps the draft identity
WritingNormalKeepsName(w, k) ==
    CASE k.code = "Esc" -> [w EXCEPT !.app.mode = "Menu"]
      [] k.code = "i" -> [w EXCEPT !.app.editor_mode = "Insert"]
      [] k.code = "v" ->
           [w EXCEPT !.app.editor_mode = "Visual",
                     !.app.textarea = start_selection(@)]
      [] k.code \in MoveKeys -> [w EXCEPT !.app.textarea = move_cursor(@, MoveOf(k.code))]
      [] k.code = "x" -> [w EXCEPT !.app.textarea = delete_next_char(@)]
      [] k.code = "u" -> [w EXCEPT !.app.textarea = undo(@)]
      [] OTHER -> w

WritingNormal(w, k) ==
    CASE k.code = "Esc" ->
           [w EXCEPT !.app.mode = "Menu", !.app.current_draft_name = NoName]
      [] k.code = "i" -> [w EXCEPT !.app.editor_mode = "Insert"]
      [] k.code = "v" ->
           [w EXCEPT !.app.editor_mode = "Visual",
                     !.app.textarea = start_selection(@)]
      [] k.code \in MoveKeys -> [w EXCEPT !.app.textarea = move_cursor(@, MoveOf(k.code))]
      [] k.code = "x" -> [w EXCEPT !.app.textarea = delete_next_char(@)]
      [] k.code = "u" -> [w EXCEPT !.app.textarea = undo(@)]
      [] OTHER -> w

WritingVisual(w, k, ok) ==
    LET copied == copy(w.app.textarea)
        content == yank_text(copied)
    IN CASE k.code = "Esc" ->
              [w EXCEPT !.app.editor_mode = "Normal",
                        !.app.textarea = cancel_selection(@)]
         [] k.code \in MoveKeys ->
              [w EXCEPT !.app.textarea = move_cursor(@, MoveOf(k.code))]
         [] k.code = "n" ->
              IF content = <<>>
              THEN SetMsg([w EXCEPT !.app.editor_mode = "Normal",
                                    !.app.textarea = cancel_selection(copied)],
                          "No text selected", <<>>, 0)
              ELSE SetMsg([w EXCEPT !.app.textarea = copied,
                                    !.app.mode = "PopupInput",
                                    !.app.popup_action = NewDraftFromSelection(content),
                                    !.app.popup_textarea =
                                        set_block(TextAreaDefault, " New Draft Name: ")],
                          "Captured bytes", <<>>, Len(content))
         [] k.code = "y" ->
              SetMsg([w EXCEPT !.app.editor_mode = "Normal",
                               !.app.textarea = cancel_selection(copied)],
                     "Yanked characters", <<>>, Len(content))
         [] k.code = "a" ->
              load_drafts(SetMsg([w EXCEPT !.app.mode = "Drafts",
                                           !.app.popup_action = AppendToDraftFromSelection],
                                 "Select draft to append to", <<>>, 0), ok)
         [] OTHER -> w

\* the Writing arm with Escape still handled while the preview is on
KeyWritingArmEscInPreview(w, k, ok) ==
    LET a == w.app
    IN CASE k.ctrl /\ k.code = "s" -> WritingSave(w, ok)
         [] k.ctrl /\ k.code = "f" ->
              SetMsg([w EXCEPT !.app.focus_mode_active = ~@],
                     IF a.focus_mode_active THEN "Focus Mode OFF" ELSE "Focus Mode ON",
                     <<>>, 0)
         [] k.ctrl /\ k.code = "p" ->
              SetMsg([w EXCEPT !.app.preview_mode_active = ~@],
                     IF a.preview_mode_active THEN "Preview OFF" ELSE "Preview ON",
                     <<>>, 0)
         [] k.ctrl /\ k.code = "l" -> WritingSpellCheck(w)
         [] k.ctrl /\ k.code = "r" -> WritingRename(w)
         [] OTHER ->
              IF a.preview_mode_active /\ k.code # "Esc" THEN w
              ELSE IF ~a.settings.vim_mode
                   THEN IF k.code = "Esc"
                        THEN [w EXCEPT !.app.mode = "Menu",
                                       !.app.current_draft_name = NoName]
                        ELSE EditKey(w, k)
                   ELSE CASE a.editor_mode = "Insert" -> WritingInsert(w, k)
                          [] a.editor_mode = "Normal" -> WritingNormal(w, k)
                          [] a.editor_mode = "Visual" -> WritingVisual(w, k, ok)

KeyWritingArm(w, k, ok) ==
    LET a == w.app
    IN CASE k.ctrl /\ k.code = "s" -> WritingSave(w, ok)
         [] k.ctrl /\ k.code = "f" ->
              SetMsg([w EXCEPT !.app.focus_mode_active = ~@],
                     IF a.focus_mode_active THEN "Focus Mode OFF" ELSE "Focus Mode ON",
                     <<>>, 0)
         [] k.ctrl /\ k.code = "p" ->
              SetMsg([w EXCEPT !.app.preview_mode_active = ~@],
                     IF a.preview_mode_active THEN "Preview OFF" ELSE "Preview ON",
                     <<>>, 0)
         [] k.ctrl /\ k.code = "l" -> WritingSpellCheck(w)
         [] k.ctrl /\ k.code = "r" -> WritingRename(w)
         [] OTHER ->
              IF a.preview_mode_active THEN w
              ELSE IF ~a.settings.vim_mode
                   THEN IF k.code = "Esc"
                        THEN [w EXCEPT !.app.mode = "Menu",
                                       !.app.current_draft_name = NoName]
                        ELSE EditKey(w, k)
                   ELSE CASE a.editor_mode = "Insert" -> WritingInsert(w, k)
                          [] a.editor_mode = "Normal" -> WritingNormal(w, k)
                          [] a.editor_mode = "Visual" -> WritingVisual(w, k, ok)

KeyFlowArm(w, k, ok) ==
    IF k.code = "Esc" THEN end_flow(w, TRUE, ok) ELSE EditKey(w, k)

\* the FlowHistory arm with 'q' quitting as it does in Menu
KeyFlowHistoryArmQuits(w, k) ==
    LET a == w.app
    IN CASE k.code = "Esc" -> [w EXCEPT !.app.mode = "Menu"]
         [] k.code = "q" -> [w EXCEPT !.app.should_quit = TRUE]
         [] k.code = "Down" -> [w EXCEPT !.app = next_history(@)]
         [] k.code = "Up" -> [w EXCEPT !.app = previous_history(@)]
         [] k.code = "Enter" ->
              IF Selected(a.history, a.history_state)
              THEN SetMsg([w EXCEPT !.app.textarea =
                                        TextAreaNew(StrLines(a.history[a.history_state + 1].text)),
                                    !.app.mode = "Writing"],
                          "Loaded history entry", <<>>, 0)
              ELSE w
         [] OTHER -> w

KeyFlowHistoryArm(w, k) ==
    LET a == w.app
    IN CASE k.code = "Esc" -> [w EXCEPT !.app.mode = "Menu"]
         [] k.code = "Down" -> [w EXCEPT !.app = next_history(@)]
         [] k.code = "Up" -> [w EXCEPT !.app = previous_history(@)]
         [] k.code = "Enter" ->
              IF Selected(a.history, a.history_state)
              THEN SetMsg([w EXCEPT !.app.textarea =
                                        TextAreaNew(StrLines(a.history[a.history_state + 1].text)),
                                    !.app.mode = "Writing"],
                          "Loaded history entry", <<>>, 0)
              ELSE w
         [] OTHER -> w

\* PopupCommitNew appending the default extension to every name
PopupCommitNewAlwaysExt(w, content, input_text, ok) ==
    LET filename == Trim(input_text)
        final_name == filename \o <<".">> \o Ext(w.app.settings.default_extension)
    IN IF filename = <<>> THEN w
       ELSE IF ok /\ IsFileName(final_name)
            THEN SetMsg([w EXCEPT !.disk = Storage_save_draft(@, final_name, content),
                                  !.app.mode = "Writing",
                                  !.app.editor_mode = "Normal",
                                  !.app.textarea = cancel_selection(@)],
                        "Saved selection to", final_name, 0)
            ELSE SetMsg(IF ok THEN w ELSE Fault(w), "Error saving", <<>>, 0)

\* PopupInput, Enter, NewDraftFromSelection(content)
PopupCommitNew(w, content, input_text, ok) ==
    LET filename == Trim(input_text)
        final_name == IF Contains(filename, ".") THEN filename
                      ELSE filename \o <<".">> \o Ext(w.app.settings.default_extension)
    IN IF filename = <<>> THEN w
       ELSE IF ok /\ IsFileName(final_name)
            THEN SetMsg([w EXCEPT !.disk = Storage_save_draft(@, final_name, content),
                                  !.app.mode = "Writing",
                                  !.app.editor_mode = "Normal",
                                  !.app.textarea = cancel_selection(@)],
                        "Saved selection to", final_name, 0)
            ELSE SetMsg(IF ok THEN w ELSE Fault(w), "Error saving", <<>>, 0)

\* PopupCommitRename without the test for an empty name
PopupCommitRenameAnyName(w, old_name, input_text, ok1, ok2) ==
    LET new_name == Trim(input_text)
    IN IF ok1 /\ old_name \in DOMAIN w.disk.drafts /\ IsFileName(new_name)
       THEN LET w1 == SetMsg([w EXCEPT !.disk = Storage_rename_draft(@, old_name, new_name)],
                             "Renamed to", new_name, 0)
                w2 == load_drafts([w1 EXCEPT !.app.mode = "Drafts"], ok2)
            IN IF w2.app.current_draft_name = Some(old_name)
               THEN [w2 EXCEPT !.app.current_draft_name = Some(new_name)]
               ELSE w2
       ELSE SetMsg(IF ok1 THEN w ELSE Fault(w), "Error renaming", <<>>, 0)

\* PopupCommitRename leaving the buffer's identity at the old name
PopupCommitRenameKeepsName(w, old_name, input_text, ok1, ok2) ==
    LET new_name == Trim(input_text)
    IN IF new_name = <<>> THEN w
       ELSE IF ok1 /\ old_name \in DOMAIN w.disk.drafts /\ IsFileName(new_name)
            THEN load_drafts([SetMsg([w EXCEPT !.disk = Storage_rename_draft(@, old_name, new_name)],
                                     "Renamed to", new_name, 0)
                                 EXCEPT !.app.mode = "Drafts"], ok2)
            ELSE SetMsg(IF ok1 THEN w ELSE Fault(w), "Error renaming", <<>>, 0)

\* PopupInput, Enter, RenameDraft(old_name)
PopupCommitRename(w, old_name, input_text, ok1, ok2) ==
    LET new_name == Trim(input_text)
    IN IF new_name = <<>> THEN w
       ELSE IF ok1 /\ old_name \in DOMAIN w.disk.drafts /\ IsFileName(new_name)
            THEN LET w1 == SetMsg([w EXCEPT !.disk = Storage_rename_draft(@, old_name, new_name)],
                                  "Renamed to", new_name, 0)
                     w2 == load_drafts([w1 EXCEPT !.app.mode = "Drafts"], ok2)
                 IN IF w2.app.current_draft_name = Some(old_name)
                    THEN [w2 EXCEPT !.app.current_draft_name = Some(new_name)]
                    ELSE w2
            ELSE SetMsg(IF ok1 THEN w ELSE Fault(w), "Error renaming", <<>>, 0)

\* the PopupInput arm with Escape always returning to Writing
KeyPopupInputArmEscToWriting(w, k, ok1, ok2) ==
    LET a == w.app
    IN CASE k.code = "Esc" ->
              [w EXCEPT !.app.mode = "Writing", !.app.popup_action = NoAction]
         [] k.code = "Enter" ->
              LET input_text == Join(a.popup_textarea.lines, <<>>)
                  w1 == CASE a.popup_action.kind = "NewDraftFromSelection" ->
                               PopupCommitNew(w, a.popup_action.payload, input_text, ok1)
                          [] a.popup_action.kind = "RenameDraft" ->
                               PopupCommitRename(w, a.popup_action.payload, input_text, ok1, ok2)
                          [] OTHER -> w
              IN [w1 EXCEPT !.app.popup_action = NoAction]
         [] OTHER -> [w EXCEPT !.app.popup_textarea = input(@, k)]

KeyPopupInputArm(w, k, ok1, ok2) ==
    LET a == w.app
    IN CASE k.code = "Esc" ->
              [w EXCEPT !.app.mode = IF a.popup_action.kind = "RenameDraft"
                                     THEN "Drafts" ELSE "Writing",
                        !.app.popup_action = NoAction]
         [] k.code = "Enter" ->
              LET input_text == Join(a.popup_textarea.lines, <<>>)
                  w1 == CASE a.popup_action.kind = "NewDraftFromSelection" ->
                               PopupCommitNew(w, a.popup_action.payload, input_text, ok1)
                          [] a.popup_action.kind = "RenameDraft" ->
                               PopupCommitRename(w, a.popup_action.payload, input_text, ok1, ok2)
                          [] OTHER -> w
              IN [w1 EXCEPT !.app.popup_action = NoAction]
         [] OTHER -> [w EXCEPT !.app.popup_textarea = input(@, k)]

handle_key_event(w, k, ok1, ok2) ==
    CASE w.app.mode = "Splash" -> KeySplashArm(w, ok1)
      [] w.app.mode = "Menu" -> KeyMenuArm(w, k, ok1)
      [] w.app.mode = "Drafts" -> KeyDraftsArm(w, k, ok1, ok2)
      [] w.app.mode = "Settings" -> KeySettingsArm(w, k, ok1)
      [] w.app.mode = "SpellCheck" -> KeySpellCheckArm(w, k)
      [] w.app.mode = "Writing" -> KeyWritingArm(w, k, ok1)
      [] w.app.mode = "Flow" -> KeyFlowArm(w, k, ok1)
      [] w.app.mode = "FlowHistory" -> KeyFlowHistoryArm(w, k)
      [] w.app.mode = "PopupInput" -> KeyPopupInputArm(w, k, ok1, ok2)

\* --------------------------------------------------------------------- tick
Elapsed(instant) == instant

\* tick clearing a message as soon as its three seconds are up
tick_at_ttl(w, ok) ==
    LET a == w.app
        w1 == IF a.mode = "Splash" /\ a.splash_start # None
                 /\ Elapsed(a.splash_start) >= SPLASH_TIMEOUT
              THEN KeySplashArm(w, ok)
              ELSE w
        w2 == IF w1.app.mode = "Flow" /\ w1.app.flow_start # None
              THEN IF Elapsed(w1.app.flow_start) >= w1.app.flow_duration
                   THEN end_flow([w1 EXCEPT !.app.flow_remaining = 0], TRUE, ok)
                   ELSE [w1 EXCEPT !.app.flow_remaining =
                                       w1.app.flow_duration - Elapsed(w1.app.flow_start)]
              ELSE w1
    IN IF w2.app.message_time # None /\ Elapsed(w2.app.message_time) >= MESSAGE_TTL
       THEN [w2 EXCEPT !.app.message = NoMsg, !.app.message_time = None]
       ELSE w2

tick(w, ok) ==
    LET a == w.app
        w1 == IF a.mode = "Splash" /\ a.splash_start # None
                 /\ Elapsed(a.splash_start) >= SPLASH_TIMEOUT
              THEN KeySplashArm(w, ok)
              ELSE w
        w2 == IF w1.app.mode = "Flow" /\ w1.app.flow_start # None
              THEN IF Elapsed(w1.app.flow_start) >= w1.app.flow_duration
                   THEN end_flow([w1 EXCEPT !.app.flow_remaining = 0], TRUE, ok)
                   ELSE [w1 EXCEPT !.app.flow_remaining =
                                       w1.app.flow_duration - Elapsed(w1.app.flow_start)]
              ELSE w1
    IN IF w2.app.message_time # None /\ Elapsed(w2.app.message_time) > MESSAGE_TTL
       THEN [w2 EXCEPT !.app.message = NoMsg, !.app.message_time = None]
       ELSE w2

\* ------------------------------------------------------------ initial state
\* App::default()
AppDefault(settings) ==
    LET should_show_splash ==
            settings.show_splash_screen \/ settings.last_seen_version # CurrentVersion
    IN [preview_mode_active |-> FALSE,
        focus_mode_active |-> FALSE,
        settings |-> settings,
        mode |-> IF should_show_splash THEN "Splash" ELSE "Menu",
        editor_mode |-> IF settings.vim_mode THEN "Normal" ELSE "Insert",
        popup_action |-> NoAction,
        popup_textarea |-> set_block(TextAreaDefault, " Input "),
        should_quit |-> FALSE,
        textarea |-> TextAreaDefault,
        flow_duration |-> DEFAULT_FLOW_SECS,
        flow_start |-> None,
        flow_remaining |-> DEFAULT_FLOW_SECS,
        history_state |-> None,
        history |-> <<>>,
        drafts |-> <<>>,
        drafts_state |-> None,
        current_draft_name |-> NoName,
        message |-> NoMsg,
        message_time |-> None,
        splash_start |-> IF should_show_splash THEN 0 ELSE None,
        version |-> CurrentVersion,
        misspelled_words |-> <<>>]

\* ------------------------------------------------------------------ actions
Becomes(w) ==
    /\ w.faults <= MaxFaults
    /\ app' = w.app
    /\ disk' = w.disk
    /\ utc' = w.utc
    /\ faults' = w.faults
    /\ writes' = IF w.disk.drafts = disk.drafts THEN writes ELSE writes + 1
    /\ writes' <= MaxWrites

\* the text buffer a key is handed on to, if any
Forwarded(k) ==
    CASE app.mode = "Flow" -> IF k.code # "Esc" THEN <<app.textarea>> ELSE <<>>
      [] app.mode = "PopupInput" ->
           IF k.code \notin {"Esc", "Enter"} THEN <<app.popup_textarea>> ELSE <<>>
      [] app.mode = "Writing" ->
           IF /\ ~(k.ctrl /\ k.code \in CtrlCodes)
              /\ ~app.preview_mode_active
              /\ k.code # "Esc"
              /\ (~app.settings.vim_mode \/ app.editor_mode = "Insert")
           THEN <<app.textarea>> ELSE <<>>
      [] OTHER -> <<>>

\* the handler reads the wall clock for a value it keeps
ReadsClock(k) ==
    \/ app.mode = "Menu" /\ k.code \in {"f", "5"}
    \/ app.mode = "Writing" /\ k.ctrl /\ k.code = "s" /\ app.current_draft_name = NoName

Accepts(k) ==
    /\ Forwarded(k) # <<>> => Typable(Forwarded(k)[1], k)
    /\ ReadsClock(k) => utc < MaxUtc

Running == phase = "run" /\ ~app.should_quit

\* one key event handled by the event loop
\* a handler that panics takes the process down
Lands(w) ==
    /\ Becomes(w)
    /\ phase' = IF w.panicked THEN "panic" ELSE phase
    /\ UNCHANGED <<last_tick, events>>

Key(k, ok1, ok2) ==
    /\ Running
    /\ Accepts(k)
    /\ Lands(handle_key_event(World, k, ok1, ok2))

KeysOf(cs) == {K(c) : c \in cs}

\* the key k arrives while the mode is m
KeyAt(m, k, ok1, ok2) == app.mode = m /\ Key(k, ok1, ok2)

\* a key of the set KS arrives while the mode is the one named
KeySplash(KS) == \E k \in KS, ok \in BOOLEAN : KeyAt("Splash", k, ok, TRUE)
KeyMenu(KS) == \E k \in KS, ok1, ok2 \in BOOLEAN : KeyAt("Menu", k, ok1, ok2)
KeySettings(KS) == \E k \in KS, ok \in BOOLEAN : KeyAt("Settings", k, ok, TRUE)
KeyDrafts(KS) == \E k \in KS, ok1, ok2 \in BOOLEAN : KeyAt("Drafts", k, ok1, ok2)
KeyWriting(KS) == \E k \in KS, ok1, ok2 \in BOOLEAN : KeyAt("Writing", k, ok1, ok2)
KeySpellCheck(KS) == \E k \in KS : KeyAt("SpellCheck", k, TRUE, TRUE)
KeyFlow(KS) == \E k \in KS, ok \in BOOLEAN : KeyAt("Flow", k, ok, TRUE)
KeyFlowHistory(KS) == \E k \in KS : KeyAt("FlowHistory", k, TRUE, TRUE)
KeyPopupInput(KS) == \E k \in KS, ok1, ok2 \in BOOLEAN : KeyAt("PopupInput", k, ok1, ok2)

\* the event loop's periodic call of tick
\* the tick of the iteration whose key set the quit flag still runs, and is
\* the last thing the loop does
Tick ==
    /\ phase = "run"
    /\ \E ok \in BOOLEAN : Becomes(tick(World, ok))
    /\ phase' = IF app.should_quit THEN "done" ELSE phase
    /\ UNCHANGED <<last_tick, events>>

\* the loop condition ends the loop once the quit flag is set
Exit ==
    /\ phase = "run"
    /\ app.should_quit
    /\ phase' = "done"
    /\ UNCHANGED <<app, disk, utc, faults, writes, last_tick, events>>

Later(instant, d, cap) == IF instant = None THEN None ELSE Min(instant + d, cap)

\* the instants of the application record, d seconds later
Aged(a, d) ==
    [a EXCEPT !.splash_start = Later(@, d, SPLASH_TIMEOUT),
              !.flow_start = Later(@, d, a.flow_duration),
              !.message_time = Later(@, d, MESSAGE_TTL + 1)]

\* d seconds pass between two events
Pass(d) ==
    /\ Running
    /\ app' = Aged(app, d)
    /\ UNCHANGED <<disk, utc, faults, writes, phase, last_tick, events>>

\* tick is called d seconds after the previous event
TickAfter(d) ==
    /\ Running
    /\ \E ok \in BOOLEAN : Becomes(tick([World EXCEPT !.app = Aged(app, d)], ok))
    /\ UNCHANGED <<phase, last_tick, events>>

\* main: no subcommand
CliNone ==
    /\ phase = "cli"
    /\ phase' = "run"
    /\ UNCHANGED <<app, disk, utc, faults, writes, last_tick, events>>

\* main: the flow subcommand, App::with_flow_mode(time)
CliFlowOf(times) ==
    /\ phase = "cli"
    /\ phase' = "run"
    /\ \E t \in times : Becomes(start_flow(World, t))
    /\ UNCHANGED <<last_tick, events>>

\* main: the flow-history subcommand, a synthesized 'h'
CliFlowHistory ==
    /\ phase = "cli"
    /\ phase' = "run"
    /\ \E ok \in BOOLEAN : Becomes(handle_key_event(World, K("h"), ok, TRUE))
    /\ UNCHANGED <<last_tick, events>>

InitWith(disks) ==
    /\ disk \in disks
    /\ app = AppDefault(disk.settings)
    /\ utc = 1
    /\ faults = 0
    /\ writes = 0
    /\ phase = "cli"
    /\ last_tick = 0
    /\ events = <<>>

\* ------------------------------------------------- Spec: drafts and editing
DraftA == [n \in {<<"a">>} |-> <<"a", "\n">>]
Entry0 == [timestamp |-> 0, duration_minutes |-> 5, text |-> <<"a">>]
IdleSecs == 300

Init ==
    InitWith([drafts : {DraftA},
              history : {<<Entry0>>},
              settings : [default_extension : {"txt"},
                          vim_mode : BOOLEAN,
                          show_splash_screen : {FALSE},
                          spellcheck_enabled : {TRUE},
                          last_seen_version : {CurrentVersion}]])

Next ==
    \/ CliNone
    \/ KeyMenu(KeysOf({"n", "d"}))
    \/ KeyDrafts(KeysOf({"Esc", "Enter", "r"}))
    \/ KeyWriting(KeysOf({"Esc", "i", "v", "l", "n", "a"}) \cup {Ctrl("s"), Ctrl("r")})
    \/ KeyPopupInput(KeysOf({"Esc", "Enter", "a"}))
    \/ TickAfter(IdleSecs)

Spec == Init /\ [][Next]_vars

\* ------------------------------------------------ SpecSession: flow sessions
InitSession ==
    InitWith([drafts : {DraftA},
              history : {<<>>, <<Entry0>>},
              settings : [default_extension : {"txt"},
                          vim_mode : {FALSE},
                          show_splash_screen : BOOLEAN,
                          spellcheck_enabled : {TRUE},
                          last_seen_version : {"v0", CurrentVersion}]])

NextSession ==
    \/ CliNone
    \/ CliFlowOf({FLOW_MINS_5})
    \/ KeySplash(KeysOf({"a"}))
    \/ KeyMenu(KeysOf({"f", "5"}))
    \/ KeyFlow(KeysOf({"a", " ", "Esc"}))
    \/ Tick
    \/ Pass(IdleSecs)

SpecSession == InitSession /\ [][NextSession]_vars

\* ------------------------------------- SpecLive: the loop under its schedule
NextLive ==
    \/ CliNone
    \/ CliFlowHistory
    \/ KeySplash(KeysOf({"a"}))
    \/ KeyMenu(KeysOf({"n", "q"}))
    \/ KeyWriting(KeysOf({"Esc"}))
    \/ KeyFlowHistory(KeysOf({"Esc"}))
    \/ Tick
    \/ \E d \in {1, IdleSecs} : Pass(d)
    \/ Exit

\* the wall clock advances, and run_app calls tick every 250 ms whatever the
\* keys that arrive
SpecLive ==
    /\ InitSession
    /\ [][NextLive]_vars
    /\ WF_vars(Tick)
    /\ WF_vars(\E d \in {1, IdleSecs} : Pass(d))

\* ------------------------------------------------ SpecKeys: every mode's keys
NextKeys ==
    \/ CliNone
    \/ KeyMenu(KeysOf({"n", "d", "s", "h"}))
    \/ KeySettings(KeysOf({"Esc", "v"}))
    \/ KeyFlowHistory(KeysOf({"Esc", "Enter"}))
    \/ KeyDrafts(KeysOf({"Esc", "Enter"}))
    \/ KeyWriting(KeysOf({"Esc", "i", "v", "a"}) \cup {Ctrl("l"), Ctrl("p"), Ctrl("r")})
    \/ KeySpellCheck(KeysOf({"Esc"}))
    \/ KeyPopupInput(KeysOf({"Esc"}))
    \/ TickAfter(IdleSecs)

SpecKeys == Init /\ [][NextKeys]_vars

\* ------------------------------------------------ SpecPopup: the name popup
\* a character typed into the popup while the name has fewer than MaxName
\* characters and the drafts directory is as it was at the start
KeyName(k) ==
    /\ Running
    /\ app.mode = "PopupInput"
    /\ Len(Text(app.popup_textarea)) < MaxName
    /\ writes = 0
    /\ Lands(handle_key_event(World, k, TRUE, TRUE))

NextPopup ==
    \/ CliNone
    \/ KeyMenu(KeysOf({"d"}))
    \/ KeyDrafts(KeysOf({"r", "Enter"}))
    \/ KeyWriting(KeysOf({"v", "l", "n"}) \cup {Ctrl("r")})
    \/ \E k \in KeysOf({"a", ".", " "}) : KeyName(k)
    \/ KeyPopupInput(KeysOf({"Esc", "Enter", "Backspace"}))

SpecPopup == Init /\ [][NextPopup]_vars

\* ------------------------------------------- SpecWrap: long lines in Writing
\* a line of n characters with spaces at the indices SP and U+00E9 at WP
WrapLine(n, SP, WP) ==
    [i \in 1..n |-> IF i - 1 \in WP THEN TwoByteChar
                    ELSE IF i - 1 \in SP THEN " " ELSE "a"]

WrapDisk(line, vim) ==
    [drafts |-> [n \in {<<"a">>} |-> line],
     history |-> <<>>,
     settings |-> [default_extension |-> "txt",
                   vim_mode |-> vim,
                   show_splash_screen |-> FALSE,
                   spellcheck_enabled |-> TRUE,
                   last_seen_version |-> CurrentVersion]]

\* Writing after the draft holding the line has been opened from the draft
\* list ('d' in Menu, Enter in Drafts)
Opened(line, vim) ==
    [AppDefault(WrapDisk(line, vim).settings) EXCEPT
        !.mode = "Writing",
        !.drafts = << <<"a">> >>,
        !.drafts_state = 0,
        !.textarea = TextAreaNew(StrLines(line)),
        !.current_draft_name = Some(<<"a">>),
        !.message = Msg("Loaded", <<"a">>, 0),
        !.message_time = 0]

\* ... and the cursor moved along the line with the arrow keys
InitWrap ==
    \E n \in {0, 89, 90, 91, 92}, SP \in SUBSET {41, 42, 89, 90}, WP \in {{}, {10}, {89}} :
      \E c \in {d \in {0, 60, n} : d <= n}, vim \in BOOLEAN :
        /\ app = [Opened(WrapLine(n, SP, WP), vim) EXCEPT !.textarea.cursor = <<0, c>>]
        /\ disk = WrapDisk(WrapLine(n, SP, WP), vim)
        /\ utc = 1
        /\ faults = 0
        /\ writes = 0
        /\ phase = "run"
        /\ last_tick = 0
        /\ events = <<>>

WrapKeys == KeysOf({"a", " ", "Down"})

\* one key event in Writing; text is typed while the buffer holds fewer than
\* MaxLine characters, a space only as the character of index 40, and 'x'
\* is pressed as the Normal-mode command only
KeyLong(k) ==
    /\ Running
    /\ app.mode = "Writing"
    /\ k.code = "x" => app.settings.vim_mode /\ app.editor_mode = "Normal"
    /\ IsChar(k) /\ k.code # "x" => Len(Text(app.textarea)) < MaxLine
    /\ k.code = " " => Len(Text(app.textarea)) = 40
    /\ Lands(handle_key_event(World, k, TRUE, TRUE))

NextWrap == \E k \in WrapKeys \cup KeysOf({"x"}) : KeyLong(k)

SpecWrap == InitWrap /\ [][NextWrap]_vars

TypeOK ==
    /\ app.mode \in {"Splash", "Menu", "Writing", "Flow", "FlowHistory", "Settings",
                     "Drafts", "PopupInput", "SpellCheck"}
    /\ app.editor_mode \in {"Normal", "Insert", "Visual"}

\* ================================================================== claims
Modal == app.settings.vim_mode
InVisual(a) == a.editor_mode = "Visual"
Anchored(ta) == ta.sel # NoSel
Handled(k, ok1, ok2) == handle_key_event(World, k, ok1, ok2)

\* C1: in every reachable state with modal editing enabled, EditorMode = Visual
\* implies that the primary buffer has an active selection anchor.
C1_VisualHasAnchor == (Modal /\ InVisual(app)) => Anchored(app.textarea)

\* the state has left Visual with the anchor cancelled
LeftVisual(w) == ~Anchored(w.app.textarea) /\ ~InVisual(w.app)

\* C2: every path that leaves Visual mode cancels the selection anchor: after
\* Escape, 'y', 'n' with nothing captured, after confirming or cancelling a
\* NewDraftFromSelection popup, and after Enter or Escape in Drafts with an
\* append pending, the buffer has no anchor and EditorMode is not Visual.
C2_LeavingVisualCancels ==
    \A ok \in BOOLEAN :
        /\ (app.mode = "Writing" /\ Modal /\ InVisual(app) /\ ~app.preview_mode_active)
             => /\ LeftVisual(Handled(K("Esc"), ok, TRUE))
                /\ LeftVisual(Handled(K("y"), ok, TRUE))
                /\ yank_text(copy(app.textarea)) = <<>>
                     => LeftVisual(Handled(K("n"), ok, TRUE))
        /\ (app.mode = "PopupInput" /\ Modal
              /\ app.popup_action.kind = "NewDraftFromSelection")
             => /\ LeftVisual(Handled(K("Esc"), ok, TRUE))
                /\ Handled(K("Enter"), ok, TRUE).app.mode = "Writing"
                     => LeftVisual(Handled(K("Enter"), ok, TRUE))
        /\ (app.mode = "Drafts" /\ Modal
              /\ app.popup_action.kind = "AppendToDraftFromSelection")
             => /\ LeftVisual(Handled(K("Esc"), ok, TRUE))
                /\ Handled(K("Enter"), ok, TRUE).app.mode = "Writing"
                     => LeftVisual(Handled(K("Enter"), ok, TRUE))

\* C3: pressing 'n' in Menu enters Writing with an empty buffer and no current
\* draft identity, so that a following Ctrl+S changes no draft already stored.
C3_NewStartsUnnamed ==
    app.mode = "Menu" =>
        LET w == Handled(K("n"), TRUE, TRUE)
        IN /\ w.app.mode = "Writing"
           /\ Text(w.app.textarea) = <<>>
           /\ w.app.current_draft_name = NoName
           /\ \A ok \in BOOLEAN :
                LET s == handle_key_event(w, Ctrl("s"), ok, TRUE)
                IN \A f \in DOMAIN disk.drafts :
                       f \in DOMAIN s.disk.drafts /\ s.disk.drafts[f] = disk.drafts[f]

\* C4: every step that takes Mode from Writing directly to Menu is an Escape
\* with modal editing off or in Normal, and it sets current_draft_name to None;
\* Escape in Insert or Visual does not leave Writing; a tick keeps Writing.
C4_WritingToMenuClearsName ==
    app.mode = "Writing" =>
        \A k \in Keys, ok \in BOOLEAN :
            LET w == Handled(k, ok, TRUE)
            IN /\ w.app.mode = "Menu"
                    => /\ w.app.current_draft_name = NoName
                       /\ k.code = "Esc"
                       /\ (~Modal \/ app.editor_mode = "Normal")
               /\ (Modal /\ app.editor_mode \in {"Insert", "Visual"} /\ k.code = "Esc")
                    => w.app.mode = "Writing"
               /\ tick(World, ok).app.mode = "Writing"

\* a named draft is open in Normal and Escape takes it to Menu, unnamed
C4_Witness ==
    /\ app.mode = "Writing" /\ Modal /\ app.editor_mode = "Normal"
    /\ app.current_draft_name # NoName
    /\ Handled(K("Esc"), TRUE, TRUE).app.mode = "Menu"
    /\ Handled(K("Esc"), TRUE, TRUE).app.current_draft_name = NoName

\* the buffer TextArea::new builds from a draft's content
Loaded(content) == TextAreaNew(StrLines(content))

DraftsFilename == app.drafts[app.drafts_state + 1]
AppendPending == app.popup_action.kind = "AppendToDraftFromSelection"

\* C5 as stated: Enter from Drafts to Writing sets current_draft_name to the
\* selected draft and leaves the buffer holding exactly the draft's loaded
\* content, with and without a pending append; a draft that cannot be loaded
\* leaves Mode, current_draft_name and the buffer as they were.
C5_EnterLoadsContent ==
    app.mode = "Drafts" =>
        \A ok \in BOOLEAN :
            LET w == Handled(K("Enter"), ok, TRUE)
                sel == Selected(app.drafts, app.drafts_state)
            IN IF sel /\ Loadable(World, DraftsFilename, ok)
               THEN /\ w.app.mode = "Writing"
                    /\ w.app.current_draft_name = Some(DraftsFilename)
                    /\ w.app.textarea.lines = Loaded(disk.drafts[DraftsFilename]).lines
               ELSE /\ w.app.mode = "Drafts"
                    /\ w.app.current_draft_name = app.current_draft_name
                    /\ w.app.textarea = app.textarea

\* C5, amended: as above, but with an append pending the buffer holds the
\* draft's lines followed by one empty line, the cursor on that line, and the
\* pending action is cleared; without one it is a fresh buffer of the content.
\* Enter is the only key that takes Drafts to Writing.
C5_EnterLoadsDraft ==
    app.mode = "Drafts" =>
        /\ \A ok \in BOOLEAN :
            LET w == Handled(K("Enter"), ok, TRUE)
                sel == Selected(app.drafts, app.drafts_state)
                fresh == Loaded(disk.drafts[DraftsFilename])
            IN IF sel /\ Loadable(World, DraftsFilename, ok)
               THEN /\ w.app.mode = "Writing"
                    /\ w.app.current_draft_name = Some(DraftsFilename)
                    /\ IF AppendPending
                       THEN /\ w.app.textarea.lines = fresh.lines \o << <<>> >>
                            /\ w.app.textarea.cursor = <<Len(fresh.lines), 0>>
                            /\ w.app.popup_action = NoAction
                       ELSE w.app.textarea = fresh
               ELSE /\ w.app.mode = "Drafts"
                    /\ w.app.current_draft_name = app.current_draft_name
                    /\ w.app.textarea = app.textarea
        /\ \A k \in Keys, ok1, ok2 \in BOOLEAN :
            Handled(k, ok1, ok2).app.mode = "Writing" => k.code = "Enter"

\* an append is pending on a draft other than the one the buffer belongs to
C5_Witness ==
    /\ app.mode = "Drafts" /\ AppendPending
    /\ Selected(app.drafts, app.drafts_state)
    /\ app.current_draft_name # Some(DraftsFilename)
    /\ Handled(K("Enter"), TRUE, TRUE).app.mode = "Writing"

Transitions ==
    {<<"Splash", "Menu">>,
     <<"Menu", "Writing">>, <<"Menu", "Flow">>, <<"Menu", "FlowHistory">>,
     <<"Menu", "Drafts">>, <<"Menu", "Settings">>,
     <<"Writing", "Menu">>, <<"Writing", "SpellCheck">>, <<"Writing", "PopupInput">>,
     <<"Writing", "Drafts">>,
     <<"Flow", "Menu">>,
     <<"FlowHistory", "Menu">>, <<"FlowHistory", "Writing">>,
     <<"Drafts", "Menu">>, <<"Drafts", "Writing">>, <<"Drafts", "PopupInput">>,
     <<"Settings", "Menu">>,
     <<"SpellCheck", "Writing">>,
     <<"PopupInput", "Drafts">>, <<"PopupInput", "Writing">>}

Legal(m, n) == m = n \/ <<m, n>> \in Transitions

\* the title the popup was opened with tells why it was opened
OpenedForRename == app.popup_textarea.block = " Rename to: "
OpenedFromSelection == app.popup_textarea.block = " New Draft Name: "

\* C6: over every step (key or tick) Mode stays or changes along a listed
\* transition; PopupInput returns to Drafts whenever the popup was opened for
\* a rename and to Writing only when it was opened from a selection.
C6_ListedTransitions ==
    /\ \A k \in Keys, ok1, ok2 \in BOOLEAN :
        LET n == Handled(k, ok1, ok2).app.mode
        IN /\ Legal(app.mode, n)
           /\ (app.mode = "PopupInput" /\ n # "PopupInput")
                => /\ OpenedForRename => n = "Drafts"
                   /\ n = "Writing" => OpenedFromSelection
    /\ \A ok \in BOOLEAN : Legal(app.mode, tick(World, ok).app.mode)

NormalCodes == {"Esc", "i", "v", "x", "u"} \cup MoveKeys
VisualCodes == {"Esc", "y", "n", "a"} \cup MoveKeys

\* the keys the transition table lists for the current mode
Listed(k) ==
    CASE app.mode = "Menu" -> k.code \in {"n", "f", "5", "h", "d", "s", "q"}
      [] app.mode = "Drafts" -> k.code \in {"Esc", "Down", "Up", "Enter", "r", "d", "Delete"}
      [] app.mode = "FlowHistory" -> k.code \in {"Esc", "Down", "Up", "Enter"}
      [] app.mode = "Settings" -> k.code \in {"Esc", "e", "v", "s", "c"}
      [] app.mode = "SpellCheck" -> k.code = "Esc"
      [] app.mode = "Writing" ->
           \/ k.ctrl /\ k.code \in CtrlCodes
           \/ /\ ~app.preview_mode_active
              /\ \/ ~Modal
                 \/ app.editor_mode = "Insert"
                 \/ app.editor_mode = "Normal" /\ k.code \in NormalCodes
                 \/ app.editor_mode = "Visual" /\ k.code \in VisualCodes
      [] OTHER -> TRUE

\* C7 as stated: in every Mode a key the transition table does not list for
\* the mode leaves the whole application state, and what is stored, unchanged.
C7_UnlistedKeysNoOp ==
    \A k \in Keys, ok1, ok2 \in BOOLEAN : ~Listed(k) => Handled(k, ok1, ok2) = World

\* C7, amended: the same, except that 'q' leaves Settings and SpellCheck
\* exactly as Escape does.
C7_UnlistedKeysNoOpButQ ==
    \A k \in Keys, ok1, ok2 \in BOOLEAN :
        IF app.mode \in {"Settings", "SpellCheck"} /\ k.code = "q"
        THEN Handled(k, ok1, ok2) = Handled(K("Esc"), ok1, ok2)
        ELSE ~Listed(k) => Handled(k, ok1, ok2) = World

\* the spell check report is open: 'z' does nothing, 'q' goes back to Writing
C7_Witness ==
    /\ app.mode = "SpellCheck"
    /\ Handled(K("z"), TRUE, TRUE) = World
    /\ Handled(K("q"), TRUE, TRUE).app.mode = "Writing"

\* new is old with the entry e put in at one place
OneMore(old, new, e) ==
    /\ Len(new) = Len(old) + 1
    /\ \E i \in 1..Len(new) :
         /\ new[i] = e
         /\ [j \in 1..Len(old) |-> IF j < i THEN new[j] ELSE new[j + 1]] = old

NewestFirst(h) == \A i \in 1..(Len(h) - 1) : h[i].timestamp >= h[i + 1].timestamp

FlowText == Text(app.textarea)
FlowEntryNow ==
    [timestamp |-> utc,
     duration_minutes |-> app.flow_duration \div SECS_PER_MIN,
     text |-> FlowText]
Expired == Elapsed(app.flow_start) >= app.flow_duration
Running_Flow == app.mode = "Flow" /\ app.flow_start # None

\* what a tick does to a running session, given whether a non-empty buffer
\* at expiry is saved when the storage call has the outcome ok
FlowTick(saved(_)) ==
    Running_Flow =>
        \A ok \in BOOLEAN :
            LET w == tick(World, ok)
            IN IF Expired
               THEN /\ w.app.mode = "Menu"
                    /\ w.app.flow_remaining = 0
                    /\ w.app.flow_start = None
                    /\ IF Trim(FlowText) # <<>> /\ saved(ok)
                       THEN /\ OneMore(disk.history, w.disk.history, FlowEntryNow)
                            /\ NewestFirst(w.disk.history)
                       ELSE w.disk.history = disk.history
               ELSE /\ w.app.mode = "Flow"
                    /\ w.app.flow_remaining = app.flow_duration - Elapsed(app.flow_start)
                    /\ w.disk = disk

Always(ok) == TRUE
IfStored(ok) == ok

\* C8 as stated: a tick once elapsed >= D gives Mode = Menu, flow_remaining = 0,
\* flow_start = None, and a non-empty trimmed buffer gives exactly one new
\* history entry with the text and duration_minutes = D/60, the stored history
\* newest first; while elapsed < D a tick sets flow_remaining = D - elapsed.
C8_FlowExpirySaves == FlowTick(Always)

\* C8, amended: the entry is stored when the storage call succeeds; when it
\* fails the stored history is unchanged and the session still ends.
C8_FlowExpirySavesIfStored == FlowTick(IfStored)

\* a session with text has run out and the history file already has an entry
C8_Witness ==
    /\ Running_Flow /\ Expired
    /\ Trim(FlowText) # <<>>
    /\ disk.history # <<>>
    /\ Len(tick(World, TRUE).disk.history) = Len(disk.history) + 1

\* the end of a session: Menu, no start instant, one attempt to save (one
\* reading of the wall clock) exactly when the trimmed text is non-empty
EndsOnce(w, ok) ==
    /\ w.app.mode = "Menu"
    /\ w.app.flow_start = None
    /\ w.utc = IF Trim(FlowText) # <<>> THEN utc + 1 ELSE utc
    /\ IF Trim(FlowText) # <<>> /\ ok
       THEN OneMore(disk.history, w.disk.history, FlowEntryNow)
       ELSE w.disk.history = disk.history

\* C9: a session ends by Escape or by expiry with exactly one attempt to save
\* when the trimmed text is non-empty and none otherwise; nothing else in Flow
\* attempts a save, and outside Flow (flow_start = None) no key or tick
\* changes the stored history.
C9_OneEntryPerSession ==
    IF app.mode = "Flow"
    THEN \A ok \in BOOLEAN :
           LET t == tick(World, ok)
           IN /\ EndsOnce(Handled(K("Esc"), ok, TRUE), ok)
              /\ Running_Flow /\ Expired => EndsOnce(t, ok)
              /\ ~(Running_Flow /\ Expired) => t.utc = utc /\ t.disk = disk
              /\ \A k \in Keys \ {K("Esc")} :
                   LET w == Handled(k, ok, TRUE)
                   IN w.utc = utc /\ w.disk = disk /\ w.app.mode = "Flow"
    ELSE /\ app.flow_start = None
         /\ \A ok1, ok2 \in BOOLEAN :
              /\ tick(World, ok1).disk.history = disk.history
              /\ \A k \in Keys : Handled(k, ok1, ok2).disk.history = disk.history

\* a session holding only white space is ended by Escape
C9_Witness ==
    /\ app.mode = "Flow"
    /\ FlowText # <<>> /\ Trim(FlowText) = <<>>
    /\ Handled(K("Esc"), TRUE, TRUE).app.mode = "Menu"
    /\ Handled(K("Esc"), TRUE, TRUE).utc = utc

\* C10: when a flow session ends, by Escape or by timer expiry, the primary
\* buffer holds no text in the state right after Flow -> Menu.
C10_EndClearsBuffer ==
    app.mode = "Flow" =>
        \A ok \in BOOLEAN :
            /\ Text(Handled(K("Esc"), ok, TRUE).app.textarea) = <<>>
            /\ (Running_Flow /\ Expired) => Text(tick(World, ok).app.textarea) = <<>>

\* ------------------------------------------------------------ soft wrap
\* the buffers check_wrap is called with in Writing without modal editing:
\* the buffer after TextArea::input has taken the key
WrapCalls ==
    IF app.mode = "Writing" /\ ~Modal /\ ~app.preview_mode_active
    THEN {input(app.textarea, k) : k \in WrapKeys}
    ELSE {}

CurLine(t) == LineAt(t, t.cursor[1])

\* columns of the spaces among the first L characters of a line
SpacesIn(line) ==
    {i \in 0..(Min(Len(line), HARD_WRAP_LIMIT) - 1) : line[i+1] = " "}

Rightmost(S) == CHOOSE i \in S : \A j \in S : i >= j

SameText(r, t) == r.lines = t.lines /\ r.cursor = t.cursor

\* check_wrap has made two lines of the cursor line of t
Split(t) == Len(check_wrap(t).lines) = Len(t.lines) + 1

\* the column the cursor line of t was split at
SplitCol(t) == Len(LineAt(check_wrap(t), t.cursor[1]))

ValidCursor(r) ==
    /\ r.cursor[1] < Len(r.lines)
    /\ r.cursor[2] <= Len(LineAt(r, r.cursor[1]))

\* C11: check_wrap leaves text and cursor unchanged whenever the cursor line
\* has at most L = 90 characters, and whenever it is longer but has no space
\* among its first L characters.
C11_NoWrapNeeded ==
    \A t \in WrapCalls :
        (Len(CurLine(t)) <= HARD_WRAP_LIMIT \/ SpacesIn(CurLine(t)) = {})
            => ~check_wrap_panics(t) /\ SameText(check_wrap(t), t)

\* C12: a cursor line longer than L with a space among its first L characters
\* is replaced by exactly two lines, split at the rightmost such space; only
\* that space is removed, the first line has at most L characters, the other
\* lines are unchanged and the two lines joined by one space are the original.
C12_SplitAtRightmostSpace ==
    \A t \in WrapCalls :
        (Len(CurLine(t)) > HARD_WRAP_LIMIT /\ SpacesIn(CurLine(t)) # {})
            => LET line == CurLine(t)
                   row  == t.cursor[1]
                   s    == Rightmost(SpacesIn(line))
                   r    == check_wrap(t)
               IN /\ ~check_wrap_panics(t)
                  /\ r.lines = SubSeq(t.lines, 1, row)
                                 \o <<SubSeq(line, 1, s), SubSeq(line, s + 2, Len(line))>>
                                 \o SubSeq(t.lines, row + 2, Len(t.lines))
                  /\ Len(LineAt(r, row)) <= HARD_WRAP_LIMIT
                  /\ Join(<<LineAt(r, row), LineAt(r, row + 1)>>, <<" ">>) = line

\* C13: when check_wrap splits the cursor line at column s and the cursor's
\* column c was greater than s, the cursor ends on the following line at
\* column c - s - 1, a valid position of that line.
C13_CursorFollowsSplit ==
    \A t \in WrapCalls :
        (~check_wrap_panics(t) /\ Split(t) /\ t.cursor[2] > SplitCol(t))
            => LET r == check_wrap(t)
               IN /\ r.cursor = <<t.cursor[1] + 1, t.cursor[2] - SplitCol(t) - 1>>
                  /\ ValidCursor(r)

\* a key typed at the end of a line of more than L characters that has a space
C13_Witness ==
    \E t \in WrapCalls :
        /\ ~check_wrap_panics(t) /\ Split(t)
        /\ t.cursor[2] = Len(CurLine(t))
        /\ check_wrap(t).cursor[2] > 0

\* C14: when check_wrap splits the cursor line at column s and the cursor's
\* column c was at or before s, the cursor's row and column are unchanged.
C14_CursorStaysBeforeSplit ==
    \A t \in WrapCalls :
        (~check_wrap_panics(t) /\ Split(t) /\ t.cursor[2] <= SplitCol(t))
            => check_wrap(t).cursor = t.cursor

\* the 95-character line of the scenario: one space, at position 40
ScenarioLine == WrapLine(95, {40}, {})

\* the buffer after the first n characters of the scenario have been typed
ScenarioAt(t, n) ==
    IF n <= HARD_WRAP_LIMIT
    THEN t.lines = <<SubSeq(ScenarioLine, 1, n)>> /\ t.cursor = <<0, n>>
    ELSE /\ t.lines = <<SubSeq(ScenarioLine, 1, 40), SubSeq(ScenarioLine, 42, n)>>
         /\ t.cursor = <<1, n - 41>>

\* C15: typing the scenario line one character at a time, without modal
\* editing, keeps one line up to the 90th character; the 91st triggers the
\* wrap, and after the 95th the buffer has two lines of 40 and 54 characters
\* with the cursor at the end of the second, which joined by one space are
\* the typed line.
C15_TypedLineWraps ==
    (app.mode = "Writing" /\ ~Modal) =>
        /\ \A n \in 0..94 :
              ScenarioAt(app.textarea, n)
                  => LET w == Handled(K(ScenarioLine[n + 1]), TRUE, TRUE)
                     IN ~w.panicked /\ ScenarioAt(w.app.textarea, n + 1)
        /\ ScenarioAt(app.textarea, 95)
              => /\ Len(app.textarea.lines) = 2
                 /\ Len(app.textarea.lines[1]) = 40
                 /\ Len(app.textarea.lines[2]) = 54
                 /\ app.textarea.cursor = <<1, Len(app.textarea.lines[2])>>
                 /\ Join(app.textarea.lines, <<" ">>) = ScenarioLine

\* all 95 characters have been typed
C15_Witness == app.mode = "Writing" /\ ~Modal /\ ScenarioAt(app.textarea, 95)

\* ---------------------------------------------------------- the name popup
\* the name Enter works on: the popup's lines joined, trimmed
PopupName == Trim(Join(app.popup_textarea.lines, <<>>))

PendingNew == app.mode = "PopupInput" /\ app.popup_action.kind = "NewDraftFromSelection"
PendingRename == app.mode = "PopupInput" /\ app.popup_action.kind = "RenameDraft"

\* a file name has an extension when a '.' follows its first character
HasExtension(name) == IsFileName(name) /\ \E i \in 2..Len(name) : name[i] = "."

WithDefaultExt(name) == name \o <<".">> \o Ext(app.settings.default_extension)

\* Enter has saved the selection: content under final, popup closed, back in
\* Writing in Normal mode with the selection cancelled and the text as it was
SelectionSavedAs(w, final) ==
    /\ w.disk.drafts = Put(disk.drafts, final, app.popup_action.payload)
    /\ w.app.mode = "Writing"
    /\ w.app.editor_mode = "Normal"
    /\ ~Anchored(w.app.textarea)
    /\ Text(w.app.textarea) = Text(app.textarea)
    /\ w.app.popup_action = NoAction

SaveReported(w) == w.app.message.kind = "Saved selection to"

\* C16: with NewDraftFromSelection(content) pending, Enter with a non-empty
\* trimmed name saves the captured selection under that name, with '.' and the
\* default extension appended if and only if the name has no extension; when
\* the save succeeds Mode = Writing, EditorMode = Normal, no anchor, text
\* unchanged and PopupAction = None.
C16_SelectionSaved ==
    (PendingNew /\ PopupName # <<>>) =>
        \A ok \in BOOLEAN :
            LET w == Handled(K("Enter"), ok, TRUE)
                final == IF HasExtension(PopupName) THEN PopupName
                         ELSE WithDefaultExt(PopupName)
            IN IF SaveReported(w) THEN SelectionSavedAs(w, final) ELSE w.disk = disk

\* C16 as the code has it: the extension is appended if and only if the
\* trimmed name contains no '.', wherever the '.' stands.
C16_SelectionSavedNoDot ==
    (PendingNew /\ PopupName # <<>>) =>
        \A ok \in BOOLEAN :
            LET w == Handled(K("Enter"), ok, TRUE)
                final == IF Contains(PopupName, ".") THEN PopupName
                         ELSE WithDefaultExt(PopupName)
            IN /\ IF SaveReported(w) THEN SelectionSavedAs(w, final) ELSE w.disk = disk
               /\ (ok /\ IsFileName(final)) => SaveReported(w)

\* a selection has been saved under a typed name that got the extension
C16_Witness ==
    /\ app.mode = "Writing"
    /\ app.message.kind = "Saved selection to"
    /\ app.message.arg = <<"a", ".", "t", "x", "t">>
    /\ app.message.arg \in DOMAIN disk.drafts

\* C17: with RenameDraft(old) pending, Enter with an empty or white-space name
\* renames nothing: stored drafts, draft list and current_draft_name are
\* unchanged and PopupAction is None afterwards.
C17_EmptyNameNoRename ==
    (PendingRename /\ PopupName = <<>>) =>
        \A ok1, ok2 \in BOOLEAN :
            LET w == Handled(K("Enter"), ok1, ok2)
            IN /\ w.disk = disk
               /\ w.app.drafts = app.drafts
               /\ w.app.current_draft_name = app.current_draft_name
               /\ w.app.popup_action = NoAction

\* Enter has been pressed in the rename popup on a name of white space only
C17_Witness ==
    /\ app.mode = "PopupInput"
    /\ OpenedForRename
    /\ app.popup_action = NoAction
    /\ Text(app.popup_textarea) # <<>>
    /\ PopupName = <<>>
    /\ app.message.kind # "Error renaming"
    /\ disk.drafts = DraftA

\* the storage call of a rename from old to new succeeds
RenameSucceeds(old, new, ok) == ok /\ old \in DOMAIN disk.drafts /\ IsFileName(new)

RenamedName(w, old, new) ==
    IF app.current_draft_name = Some(old) THEN Some(new) ELSE app.current_draft_name

\* C18: with RenameDraft(old) pending, Enter with a non-empty trimmed name new
\* whose rename succeeds leaves Mode = Drafts, the draft list reloaded from
\* storage (holding new and not old), PopupAction = None and
\* current_draft_name = new if it was old, else unchanged.
C18_RenameReloads ==
    (PendingRename /\ PopupName # <<>>) =>
        \A ok1, ok2 \in BOOLEAN :
            LET old == app.popup_action.payload
                w == Handled(K("Enter"), ok1, ok2)
                list == w.app.drafts
            IN RenameSucceeds(old, PopupName, ok1) =>
                 /\ w.app.mode = "Drafts"
                 /\ list = Storage_list_drafts(w.disk)
                 /\ \E i \in 1..Len(list) : list[i] = PopupName
                 /\ \A i \in 1..Len(list) : list[i] # old
                 /\ w.app.popup_action = NoAction
                 /\ w.app.current_draft_name = RenamedName(w, old, PopupName)

\* C18 as the code has it: the list is the stored one when the listing
\* succeeds and is left as it was, with the failure in the overlay, when it
\* fails; the stored drafts hold new, and old only if new = old.
C18_RenameReloadsIfListed ==
    (PendingRename /\ PopupName # <<>>) =>
        \A ok1, ok2 \in BOOLEAN :
            LET old == app.popup_action.payload
                w == Handled(K("Enter"), ok1, ok2)
            IN RenameSucceeds(old, PopupName, ok1) =>
                 /\ w.app.mode = "Drafts"
                 /\ PopupName \in DOMAIN w.disk.drafts
                 /\ w.disk.drafts[PopupName] = disk.drafts[old]
                 /\ old \in DOMAIN w.disk.drafts => old = PopupName
                 /\ IF ok2
                    THEN w.app.drafts = Storage_list_drafts(w.disk)
                    ELSE /\ w.app.drafts = app.drafts
                         /\ w.app.message.kind = "Failed to load drafts"
                 /\ w.app.popup_action = NoAction
                 /\ w.app.current_draft_name = RenamedName(w, old, PopupName)

\* the draft in the buffer has been renamed from Writing
C18_Witness ==
    /\ app.mode = "Drafts"
    /\ app.message.kind = "Renamed to"
    /\ app.current_draft_name = Some(app.message.arg)
    /\ app.message.arg # <<"a">>
    /\ app.message.arg \in DOMAIN disk.drafts

\* C19: Escape in PopupInput sets Mode to Drafts if RenameDraft is pending and
\* to Writing otherwise, sets PopupAction to None and changes nothing else;
\* a key other than Escape and Enter changes only the popup's text buffer.
C19_PopupEscape ==
    app.mode = "PopupInput" =>
        \A ok1, ok2 \in BOOLEAN :
            /\ Handled(K("Esc"), ok1, ok2) =
                 [World EXCEPT !.app.mode = IF app.popup_action.kind = "RenameDraft"
                                            THEN "Drafts" ELSE "Writing",
                               !.app.popup_action = NoAction]
            /\ \A k \in Keys \ {K("Esc"), K("Enter")} :
                 LET w == Handled(k, ok1, ok2)
                 IN w = [World EXCEPT !.app.popup_textarea = w.app.popup_textarea]

\* a rename popup with a changed name is open, and Escape returns to Drafts
C19_Witness ==
    /\ PendingRename
    /\ PopupName # app.popup_action.payload
    /\ Handled(K("Esc"), TRUE, TRUE).app.mode = "Drafts"
    /\ Handled(K("."), TRUE, TRUE).app.popup_textarea # app.popup_textarea

\* ------------------------------------------------------- storage failures
FailureKinds ==
    {"Error saving", "Error saving settings", "Error loading draft", "Error renaming",
     "Error deleting", "Failed to load drafts", "Failed to load history"}

\* the handler has returned with a failure message in the overlay
FailureShown(w) == ~w.panicked /\ w.app.message.kind \in FailureKinds

\* C20: whenever a storage operation called from a key handler or from tick
\* fails, the process keeps running and, when the handler returns, the
\* message overlay holds a message describing that failure.
C20_FailuresReported ==
    \A ok1, ok2 \in BOOLEAN :
        /\ \A k \in Keys :
             LET w == Handled(k, ok1, ok2)
             IN w.faults > faults => FailureShown(w)
        /\ LET t == tick(World, ok1)
           IN t.faults > faults => FailureShown(t)

\* ------------------------------------------- failed persistence and quitting
\* the handler's first storage call fails
Failing(k) == Handled(k, FALSE, TRUE)

SameDrafts(w) ==
    /\ w.app.drafts = app.drafts
    /\ w.app.drafts_state = app.drafts_state
    /\ w.app.current_draft_name = app.current_draft_name

ToggleCodes == {"e", "v", "s", "c"}

\* C21: an operation whose persistence call fails takes no effect: after a
\* failed rename_draft or delete_draft the draft list, its selection and
\* current_draft_name are as before, after a failed save_draft
\* current_draft_name is as before, and after a failed save_settings on a
\* Settings toggle the in-memory setting has its previous value.
C21_FailedOperationNoEffect ==
    \A k \in Keys :
        LET w == Failing(k)
        IN w.faults > faults =>
             /\ PendingRename /\ k.code = "Enter" => SameDrafts(w)
             /\ app.mode = "Drafts" /\ k.code \in {"d", "Delete"} => SameDrafts(w)
             /\ app.mode = "Writing" /\ k = Ctrl("s") =>
                    w.app.current_draft_name = app.current_draft_name
             /\ PendingNew /\ k.code = "Enter" =>
                    w.app.current_draft_name = app.current_draft_name
             /\ app.mode = "Settings" /\ k.code \in ToggleCodes =>
                    w.app.settings = app.settings

\* ------------------------------------------------------ splash and messages
SplashDue ==
    app.settings.show_splash_screen \/ app.settings.last_seen_version # app.version

\* w is the state after Splash has been dismissed and nothing else has happened
Dismissed(w) ==
    /\ w.app = [app EXCEPT !.mode = "Menu",
                           !.splash_start = None,
                           !.settings.last_seen_version = app.version]
    /\ w.disk \in {disk, [disk EXCEPT !.settings = w.app.settings]}
    /\ ~w.panicked

SplashSafe ==
    /\ phase = "cli" => app.mode = (IF SplashDue THEN "Splash" ELSE "Menu")
    /\ app.mode = "Splash" =>
         /\ app.splash_start # None
         /\ \A k \in Keys, ok \in BOOLEAN : Dismissed(Handled(k, ok, TRUE))
         /\ \A ok \in BOOLEAN :
              IF Elapsed(app.splash_start) >= SPLASH_TIMEOUT
              THEN Dismissed(tick(World, ok))
              ELSE tick(World, ok).app.mode = "Splash"

\* C22: startup enters Splash when the splash setting is on or the stored
\* last-seen version differs from the running one, Menu otherwise; from Splash
\* the first key of any kind, or the first tick at which 30 seconds have
\* elapsed, moves to Menu, clears the splash start and records the running
\* version as last seen, with no other effect; and while ticks continue
\* Splash is always eventually left.
C22_SplashLeft ==
    /\ []SplashSafe
    /\ (phase = "run" /\ app.mode = "Splash") ~> (app.mode # "Splash")

\* thirty seconds have gone by on the splash screen and the next tick leaves it
C22_Witness ==
    /\ phase = "run"
    /\ app.mode = "Splash"
    /\ ~app.settings.show_splash_screen
    /\ Elapsed(app.splash_start) = SPLASH_TIMEOUT
    /\ tick(World, TRUE).app.mode = "Menu"
    /\ tick(World, TRUE).disk.settings.last_seen_version = app.version
    /\ disk.settings.last_seen_version # app.version

\* tick ends a flow session, which puts a message of its own in the overlay
TickSetsMessage == Running_Flow /\ Expired

MessageDue == app.message_time # None /\ Elapsed(app.message_time) > MESSAGE_TTL

MessageSafe ==
    /\ (app.message = NoMsg) <=> (app.message_time = None)
    /\ \A ok \in BOOLEAN :
         LET t == tick(World, ok)
         IN IF TickSetsMessage
            THEN t.app.message # NoMsg /\ t.app.message_time = 0
            ELSE IF MessageDue
                 THEN t.app.message = NoMsg /\ t.app.message_time = None
                 ELSE /\ t.app.message = app.message
                      /\ t.app.message_time = app.message_time

\* C23 as stated: message is present exactly when message_time is, a tick
\* clears both when more than 3 seconds have passed since the most recent
\* set_message and not earlier, and every message in the overlay is eventually
\* cleared provided ticks keep occurring.
C23_EverCleared ==
    /\ []MessageSafe
    /\ (phase = "run" /\ app.message # NoMsg) ~> (app.message = NoMsg \/ phase # "run")

\* C23, amended: message is present exactly when message_time is; a tick
\* clears both when more than 3 seconds have passed since the most recent
\* set_message and no tick clears them earlier; and while the loop runs and
\* ticks keep occurring, a message in the overlay is eventually cleared or
\* replaced by a newer set_message.
C23_MessageCleared ==
    /\ []MessageSafe
    /\ (phase = "run" /\ app.message # NoMsg /\ Elapsed(app.message_time) > 0)
         ~> (app.message = NoMsg \/ Elapsed(app.message_time) = 0 \/ phase # "run")

\* a message is exactly three seconds old and the tick leaves it alone
C23_Witness ==
    /\ phase = "run"
    /\ app.message # NoMsg
    /\ Elapsed(app.message_time) = MESSAGE_TTL
    /\ tick(World, TRUE).app.message = app.message
    /\ tick([World EXCEPT !.app = Aged(app, 1)], TRUE).app.message = NoMsg

\* ------------------------------------------------------------------ quitting
\* the quit flag goes up under 'q' in Menu and under nothing else
QuitSafe ==
    /\ \A k \in Keys, ok1, ok2 \in BOOLEAN :
         Handled(k, ok1, ok2).app.should_quit =
             (app.should_quit \/ (app.mode = "Menu" /\ k.code = "q"))
    /\ \A ok \in BOOLEAN : tick(World, ok).app.should_quit = app.should_quit

MenuFlowMins == ("f" :> 10) @@ ("5" :> 5) @@ ("1" :> 15)

\* w is the state in which a flow session of the given minutes has just begun
FlowBegun(w, mins) ==
    /\ w.app.mode = "Flow"
    /\ Text(w.app.textarea) = <<>>
    /\ w.app.flow_duration = mins * SECS_PER_MIN
    /\ w.app.flow_remaining = mins * SECS_PER_MIN
    /\ w.app.flow_start = 0

\* w is the state in which the history screen is open on the stored sessions
HistoryOpen(w) ==
    /\ w.app.mode = "FlowHistory"
    /\ w.app.history = disk.history
    /\ w.app.history_state = IF disk.history = <<>> THEN None ELSE 0

\* C25: every key the Menu screen advertises performs the advertised action:
\* 'n' opens an empty Writing buffer, 'f', '5' and '1' start flow sessions of
\* 10, 5 and 15 minutes, 'h' opens FlowHistory with the history loaded and the
\* first entry selected, 'd' opens Drafts with the list loaded and the first
\* draft selected, 's' opens Settings and 'q' sets the quit flag.
C25_MenuKeysAsAdvertised ==
    app.mode = "Menu" /\ ~app.should_quit =>
        /\ \A c \in DOMAIN MenuFlowMins :
             FlowBegun(Handled(K(c), TRUE, TRUE), MenuFlowMins[c])
        /\ LET w == Handled(K("n"), TRUE, TRUE)
           IN w.app.mode = "Writing" /\ Text(w.app.textarea) = <<>>
        /\ HistoryOpen(Handled(K("h"), TRUE, TRUE))
        /\ LET w == Handled(K("d"), TRUE, TRUE)
           IN /\ w.app.mode = "Drafts"
              /\ w.app.drafts = Storage_list_drafts(disk)
              /\ w.app.drafts_state = IF w.app.drafts = <<>> THEN None ELSE 0
        /\ Handled(K("s"), TRUE, TRUE).app.mode = "Settings"
        /\ Handled(K("q"), TRUE, TRUE).app.should_quit

\* C26: pre-seeding from the command line reaches the requested mode for every
\* persisted settings value: after the flow-history command Mode = FlowHistory
\* with the history loaded, and after the flow command with time N Mode = Flow
\* with an empty buffer, flow_duration = flow_remaining = N minutes and a
\* recorded start instant.
C26_CliReachesMode ==
    phase = "cli" =>
        /\ HistoryOpen(Handled(K("h"), TRUE, TRUE))
        /\ \A mins \in {FLOW_MINS_5, FLOW_MINS_F} : FlowBegun(start_flow(World, mins), mins)

\* ------------------------------------------------------- soft wrap, again
\* C27: check_wrap is idempotent: a second run immediately after the first
\* changes neither the text nor the cursor.
C27_WrapIdempotent ==
    \A t \in WrapCalls :
        ~check_wrap_panics(t) =>
            /\ ~check_wrap_panics(check_wrap(t))
            /\ check_wrap(check_wrap(t)) = check_wrap(t)

\* the character check_wrap has removed from the cursor line of t is a space:
\* the two lines it has made, joined by one space, are the line
RemovedSpace(t) ==
    LET r == check_wrap(t)
        row == t.cursor[1]
    IN Join(<<LineAt(r, row), LineAt(r, row + 1)>>, <<" ">>) = CurLine(t)

\* C28: for every cursor line, lines with multi-byte characters included,
\* check_wrap completes without aborting the process, and whenever it splits
\* the line the one character it removes is a space.
C28_WrapSafeOnAnyLine ==
    \A t \in WrapCalls :
        /\ ~check_wrap_panics(t)
        /\ Split(t) => RemovedSpace(t)

\* the primary buffer as TextArea leaves it under the key k, before any wrap:
\* 'x' and 'u' are commands in Normal mode, every other key goes to input
RawEdit(k) ==
    IF app.mode = "Writing" /\ Modal /\ app.editor_mode = "Normal"
    THEN CASE k.code = "x" -> delete_next_char(app.textarea)
           [] k.code = "u" -> undo(app.textarea)
           [] OTHER -> app.textarea
    ELSE input(app.textarea, k)

Editing == app.mode \in {"Writing", "Flow"} /\ ~app.preview_mode_active

\* (the Ctrl commands of Writing never touch the text)
\* C29: every key that changes the primary buffer's text in Writing with the
\* preview off or in Flow is followed inside the same key handler by
\* check_wrap: in Insert mode, in standard mode, in Flow, and for 'x' and 'u'
\* in Normal mode.
C29_EditsAreWrapped ==
    Editing =>
        \A k \in {key \in Keys : ~key.ctrl} :
            LET w == Handled(k, TRUE, TRUE)
            IN (~w.panicked /\ Text(w.app.textarea) # Text(app.textarea)
                  /\ w.app.mode = app.mode)
                 => /\ ~check_wrap_panics(RawEdit(k))
                    /\ w.app.textarea = check_wrap(RawEdit(k))

\* ------------------------------------------------------ the popup's action
PopupKinds == {"RenameDraft", "NewDraftFromSelection"}

\* C30: in every reachable state with Mode = PopupInput the pending action is
\* RenameDraft or NewDraftFromSelection, never None, and Enter in PopupInput,
\* whatever its outcome, never leaves the application in PopupInput with the
\* action cleared.
C30_PopupHasAction ==
    app.mode = "PopupInput" =>
        /\ app.popup_action.kind \in PopupKinds
        /\ \A ok1, ok2 \in BOOLEAN :
             LET w == Handled(K("Enter"), ok1, ok2)
             IN w.app.mode = "PopupInput" => w.app.popup_action.kind \in PopupKinds

\* ------------------------------------------------- selections and drafts
\* the pending action of a is one the mode of a consumes
ActionFits(a) ==
    CASE a.popup_action.kind \in PopupKinds -> a.mode = "PopupInput"
      [] a.popup_action.kind = "AppendToDraftFromSelection" -> a.mode = "Drafts"
      [] OTHER -> a.popup_action = NoAction

\* C31: in every reachable state a pending PopupAction is tied to the mode that
\* consumes it: RenameDraft or NewDraftFromSelection only while Mode =
\* PopupInput, AppendToDraftFromSelection only while Mode = Drafts, and None in
\* Splash, Menu, Writing, Flow, FlowHistory, Settings and SpellCheck; every
\* key handler and tick keeps it so.
C31_ActionTiedToMode ==
    /\ ActionFits(app)
    /\ \A k \in Keys, ok1, ok2 \in BOOLEAN : ActionFits(Handled(k, ok1, ok2).app)
    /\ \A ok \in BOOLEAN : ActionFits(tick(World, ok).app)

\* an append is pending in Drafts and Enter opens the draft with it consumed
C31_Witness ==
    /\ app.mode = "Drafts"
    /\ AppendPending
    /\ Handled(K("Enter"), TRUE, TRUE).app.mode = "Writing"
    /\ Handled(K("r"), TRUE, TRUE).app.popup_action.kind = "RenameDraft"

VisualWriting ==
    /\ app.mode = "Writing"
    /\ Modal
    /\ InVisual(app)
    /\ ~app.preview_mode_active

\* the text between the anchor and the cursor
SelectedText(ta) ==
    LET r == SelRange(ta)
    IN IF r = <<>> THEN <<>> ELSE SubSeq(Text(ta), r[1] + 1, r[2])

\* C32: 'n' in Visual mode: if the selection is empty, Mode stays Writing,
\* EditorMode becomes Normal, the anchor is cancelled, PopupAction stays None
\* and a message is set; otherwise Mode becomes PopupInput with PopupAction =
\* NewDraftFromSelection(exactly the selected text) and an empty popup buffer,
\* and the text of the primary buffer is unchanged.
C32_NewDraftFromSelection ==
    VisualWriting =>
        LET w == Handled(K("n"), TRUE, TRUE)
            T == SelectedText(app.textarea)
        IN IF T = <<>>
           THEN /\ w.app.mode = "Writing"
                /\ w.app.editor_mode = "Normal"
                /\ ~Anchored(w.app.textarea)
                /\ w.app.popup_action = NoAction
                /\ w.app.message # NoMsg
           ELSE /\ w.app.mode = "PopupInput"
                /\ w.app.popup_action = NewDraftFromSelection(T)
                /\ Text(w.app.popup_textarea) = <<>>
                /\ Text(w.app.textarea) = Text(app.textarea)

\* the position after the last character of the buffer
EndOfBuffer(ta) == <<Len(ta.lines) - 1, Len(ta.lines[Len(ta.lines)])>>

\* C33: 'a' in Visual mode sets Mode = Drafts with PopupAction =
\* AppendToDraftFromSelection and the draft list reloaded. From there Enter on
\* a loadable draft yields Mode = Writing with the buffer holding the lines of
\* the draft's content followed by one inserted line break, the cursor at the
\* end of the buffer, current_draft_name = that draft and PopupAction = None;
\* Escape yields Mode = Menu with PopupAction = None.
C33_AppendWorkflow ==
    /\ VisualWriting =>
         LET w == Handled(K("a"), TRUE, TRUE)
         IN /\ w.app.mode = "Drafts"
            /\ w.app.popup_action = AppendToDraftFromSelection
            /\ w.app.drafts = Storage_list_drafts(disk)
    /\ app.mode = "Drafts" /\ AppendPending =>
         /\ Selected(app.drafts, app.drafts_state) /\ Loadable(World, DraftsFilename, TRUE) =>
              LET w == Handled(K("Enter"), TRUE, TRUE)
                  content == disk.drafts[DraftsFilename]
              IN /\ w.app.mode = "Writing"
                 /\ Text(w.app.textarea) = Text(Loaded(content)) \o <<"\n">>
                 /\ w.app.textarea.cursor = EndOfBuffer(w.app.textarea)
                 /\ w.app.current_draft_name = Some(DraftsFilename)
                 /\ w.app.popup_action = NoAction
         /\ LET w == Handled(K("Esc"), TRUE, TRUE)
            IN w.app.mode = "Menu" /\ w.app.popup_action = NoAction

\* 'a' was pressed on a selection, and Enter will open the listed draft with
\* the cursor on the new last line
C33_Witness ==
    /\ app.mode = "Drafts" /\ AppendPending
    /\ InVisual(app)
    /\ yank_text(app.textarea) = <<>>
    /\ Handled(K("Enter"), TRUE, TRUE).app.textarea.cursor = <<1, 0>>
    /\ Handled(K("Enter"), TRUE, TRUE).app.textarea.lines = << <<"a">>, <<>> >>

\* the state after the keys ks have been handled one after the other, every
\* storage call succeeding
RECURSIVE AfterKeys(_, _)
AfterKeys(w, ks) ==
    IF ks = <<>> THEN w
    ELSE AfterKeys(handle_key_event(w, Head(ks), TRUE, TRUE), Tail(ks))

\* yank, back to Visual, append, pick the selected draft
AppendKeys == <<K("y"), K("v"), K("a"), K("Enter")>>

\* C34: the single-slot yank register survives the append workflow: if text T
\* was yanked in Visual mode ('y') and the user then runs 'a', picks a draft
\* and presses Enter, the register of the buffer now being edited still holds
\* T, so that a paste at the end of the opened draft inserts T.
C34_RegisterSurvivesAppend ==
    VisualWriting /\ SelectedText(app.textarea) # <<>> =>
        LET w == AfterKeys(World, AppendKeys)
        IN w.app.mode = "Writing" /\ w.app.current_draft_name # NoName =>
               yank_text(w.app.textarea) = SelectedText(app.textarea)

\* ------------------------------------------------------- entering Writing
\* the keys that enter Writing afresh: 'n' in Menu, Enter in Drafts and in
\* FlowHistory
Entering(k) ==
    \/ app.mode = "Menu" /\ k = K("n")
    \/ app.mode \in {"Drafts", "FlowHistory"} /\ k = K("Enter")

\* C35: with modal editing enabled, every fresh entry into Writing from Menu
\* ('n'), from Drafts (Enter) or from FlowHistory (Enter) leaves EditorMode =
\* Normal, whatever EditorMode was when Writing was last left and whether
\* modal editing was enabled at startup or later in Settings.
C35_EntryResetsEditorMode ==
    Modal =>
        \A k \in {K("n"), K("Enter")} :
            LET w == Handled(k, TRUE, TRUE)
            IN Entering(k) /\ w.app.mode = "Writing" => w.app.editor_mode = "Normal"

\* ------------------------------------------------------ preview and saving
\* the five Ctrl shortcuts of Writing
Shortcut(k) == k.ctrl /\ k.code \in CtrlCodes

\* the keys that switch a preview off: Ctrl+P in Writing, and in Menu the flow
\* keys and 'n'
PreviewOffKey(k) ==
    \/ app.mode = "Writing" /\ k = Ctrl("p")
    \/ app.mode = "Menu" /\ k.code \in {"f", "5", "n"}

\* C36: while preview is active in Writing, every key other than the five
\* Ctrl shortcuts leaves the buffer text, cursor, selection, Mode, EditorMode
\* and current_draft_name unchanged; preview is switched off only by Ctrl+P,
\* by starting a flow session or by Menu 'n'.
C36_PreviewReadOnly ==
    app.preview_mode_active =>
        /\ \A k \in Keys, ok1, ok2 \in BOOLEAN :
             LET w == Handled(k, ok1, ok2)
             IN /\ app.mode = "Writing" /\ ~Shortcut(k) =>
                     /\ w.app.textarea = app.textarea
                     /\ w.app.mode = app.mode
                     /\ w.app.editor_mode = app.editor_mode
                     /\ w.app.current_draft_name = app.current_draft_name
                /\ ~w.app.preview_mode_active => PreviewOffKey(k)
        /\ \A ok \in BOOLEAN : tick(World, ok).app.preview_mode_active

\* the preview is on in Menu, where 'n' switches it off
C36_Witness ==
    /\ app.preview_mode_active
    /\ app.mode = "Menu"
    /\ ~Handled(K("n"), TRUE, TRUE).app.preview_mode_active
    /\ Handled(K("d"), TRUE, TRUE).app.preview_mode_active

\* a synthesized name: "draft_", a timestamp, '.', the configured extension
Synthesized(name) ==
    LET e == <<".">> \o Ext(app.settings.default_extension)
    IN /\ Len(name) > Len(DraftPrefix) + Len(e)
       /\ SubSeq(name, 1, Len(DraftPrefix)) = DraftPrefix
       /\ SubSeq(name, Len(name) - Len(e) + 1, Len(name)) = e

\* C37: Ctrl+S in Writing, in every EditorMode and with preview on or off,
\* saves the whole buffer text under current_draft_name if it is set and
\* otherwise under a newly synthesized timestamped name ending in the
\* configured extension; on success current_draft_name equals the name saved
\* under, on failure it is unchanged; Mode, EditorMode and the buffer are
\* unchanged in both cases.
C37_SaveBindsName ==
    app.mode = "Writing" =>
        \A ok \in BOOLEAN :
            LET w == Handled(Ctrl("s"), ok, TRUE)
            IN /\ w.app.mode = app.mode
               /\ w.app.editor_mode = app.editor_mode
               /\ w.app.textarea = app.textarea
               /\ IF ok
                  THEN /\ w.app.current_draft_name # NoName
                       /\ LET name == w.app.current_draft_name[1]
                          IN /\ w.disk.drafts = Put(disk.drafts, name, Text(app.textarea))
                             /\ IF app.current_draft_name # NoName
                                THEN name = app.current_draft_name[1]
                                ELSE Synthesized(name)
                  ELSE /\ w.disk = disk
                       /\ w.app.current_draft_name = app.current_draft_name

\* an unnamed buffer in Visual mode with the preview on, which Ctrl+S names
C37_Witness ==
    /\ app.mode = "Writing"
    /\ app.preview_mode_active
    /\ InVisual(app)
    /\ app.current_draft_name = NoName
    /\ Synthesized(Handled(Ctrl("s"), TRUE, TRUE).app.current_draft_name[1])

\* ------------------------------------------------------------------ settings
\* the settings s with the one setting of toggle key c flipped
Flipped(s, c) ==
    CASE c = "e" -> [s EXCEPT !.default_extension = IF @ = "txt" THEN "md" ELSE "txt"]
      [] c = "v" -> [s EXCEPT !.vim_mode = ~@]
      [] c = "s" -> [s EXCEPT !.show_splash_screen = ~@]
      [] c = "c" -> [s EXCEPT !.spellcheck_enabled = ~@]

\* C38: in Settings, each toggle key flips exactly its own setting (extension
\* between txt and md, modal editing, splash, spellcheck), leaves every other
\* setting and the Mode unchanged, and immediately persists the whole settings
\* value, so that after a successful save the persisted settings equal the
\* in-memory settings; pressing the same toggle twice restores the original
\* value.
C38_TogglesFlipAndPersist ==
    app.mode = "Settings" =>
        \A c \in ToggleCodes, ok \in BOOLEAN :
            LET w == Handled(K(c), ok, TRUE)
                again == handle_key_event(w, K(c), TRUE, TRUE)
            IN /\ w.app.settings = Flipped(app.settings, c)
               /\ w.app.settings # app.settings
               /\ w.app.mode = "Settings"
               /\ ok => w.disk.settings = w.app.settings
               /\ again.app.settings = app.settings
               /\ again.disk.settings = app.settings

\* Settings with a modal-editing toggle already persisted, differing from the
\* settings the session started with
C38_Witness ==
    /\ app.mode = "Settings"
    /\ app.settings.vim_mode
    /\ disk.settings = app.settings
    /\ app.editor_mode = "Insert"
    /\ Handled(K("e"), TRUE, TRUE).disk.settings.default_extension = "md"

\* ------------------------------------------ SpecBrowse: the two list screens
\* drafts directories of zero, one and three files, flow histories of zero,
\* one and three entries (newest first, as save_flow_entry keeps them)
InitBrowse ==
    InitWith([drafts : {[n \in names |-> <<"a", "\n">>] :
                            names \in {{}, {<<"a">>}, {<<"a">>, <<"d">>, <<"f">>}}},
              history : {<<>>, <<Entry0>>,
                         <<[Entry0 EXCEPT !.timestamp = 2],
                           [Entry0 EXCEPT !.timestamp = 1], Entry0>>},
              settings : [default_extension : {"txt"},
                          vim_mode : {FALSE},
                          show_splash_screen : {FALSE},
                          spellcheck_enabled : {TRUE},
                          last_seen_version : {CurrentVersion}]])

NextBrowse ==
    \/ CliNone
    \/ KeyMenu(KeysOf({"d", "h"}))
    \/ KeyDrafts(KeysOf({"Esc", "Down", "Up", "d"}))
    \/ KeyFlowHistory(KeysOf({"Esc", "Down", "Up"}))

SpecBrowse == InitBrowse /\ [][NextBrowse]_vars

\* C39: the list a browsing Mode shows and the index its ListState holds
Browsed(a) ==
    IF a.mode = "Drafts" THEN [list |-> a.drafts, state |-> a.drafts_state]
    ELSE [list |-> a.history, state |-> a.history_state]

Browsing == phase = "run" /\ app.mode \in {"Drafts", "FlowHistory"}

BrowseCodes == {"Down", "Up", "Enter", "r", "d", "Delete"}

\* C39: in Drafts and in FlowHistory a set selection is below the length n
\* of a list of n >= 1 entries, Down moves it from i to (i + 1) mod n and
\* Up to (i - 1) mod n; with an empty list Down, Up, Enter, rename and
\* delete keep the Mode, open no popup and leave the stored files alone
C39_SelectionCycles ==
    Browsing =>
        LET n == Len(Browsed(app).list)
            i == Browsed(app).state
        IN  /\ (n >= 1 /\ i # None) =>
                /\ i < n
                /\ \A ok1, ok2 \in BOOLEAN :
                    /\ Browsed(Handled(K("Down"), ok1, ok2).app).state
                           = (i + 1) % n
                    /\ Browsed(Handled(K("Up"), ok1, ok2).app).state
                           = (i + n - 1) % n
            /\ n = 0 =>
                \A c \in BrowseCodes : \A ok1, ok2 \in BOOLEAN :
                    LET w == Handled(K(c), ok1, ok2)
                    IN  /\ w.app.mode = app.mode
                        /\ w.app.popup_action = app.popup_action
                        /\ w.disk = disk
                        /\ ~w.panicked

\* C39: a list of two or more entries with the last one selected, and an
\* empty list, are both browsed
C39_Witness ==
    /\ Browsing
    /\ Len(Browsed(app).list) >= 2
    /\ Browsed(app).state = Len(Browsed(app).list) - 1

C39_WitnessEmpty == Browsing /\ Browsed(app).list = <<>>

\* ------------------------------------------- SpecLoop: run_app step by step
\* phase "run" is the top of a loop iteration, phase "check" the test of
\* last_tick.elapsed() that ends it
LoopEvents == {<<K("a")>>, <<K("Esc")>>, <<>>}

Typed(es) == {i \in DOMAIN es : es[i] # <<>> /\ IsChar(es[i][1])}

\* the terminal delivers an event; a character arrives only while the
\* buffer has room for it and for those waiting
Arrive ==
    /\ phase \in {"run", "check"}
    /\ Len(events) < MaxEvents
    /\ \E e \in LoopEvents :
        /\ e \in {<<K("a")>>} => Room(app.textarea, Cardinality(Typed(events)) + 1)
        /\ events' = Append(events, e)
    /\ UNCHANGED <<app, disk, utc, faults, writes, phase, last_tick>>

\* time passes: at least one tick interval, and d whole seconds
Elapse(d) ==
    /\ phase \in {"run", "check"}
    /\ app' = Aged(app, d)
    /\ last_tick' = tick_rate
    /\ UNCHANGED <<disk, utc, faults, writes, phase, events>>

\* the handler has run on the key that was read
Handles(w) ==
    /\ Becomes(w)
    /\ phase' = IF w.panicked THEN "panic" ELSE "check"

\* poll finds an event waiting and read takes the oldest: a key is handled,
\* any other event is dropped
PollEvent ==
    /\ Running
    /\ events # <<>>
    /\ events' = Tail(events)
    /\ \/ \E k \in Keys, ok1, ok2 \in BOOLEAN :
            /\ Head(events) = <<k>>
            /\ Accepts(k)
            /\ Handles(handle_key_event(World, k, ok1, ok2))
       \/ /\ Head(events) = <<>>
          /\ phase' = "check"
          /\ UNCHANGED <<app, disk, utc, faults, writes>>
    /\ UNCHANGED last_tick

\* poll returns false once the rest of the tick interval has passed with no
\* event
PollTimeout ==
    /\ Running
    /\ events = <<>>
    /\ last_tick' = tick_rate
    /\ phase' = "check"
    /\ UNCHANGED <<app, disk, utc, faults, writes, events>>

\* the end of the iteration: tick, if a tick interval has passed since the
\* last one
\* the same, but with the tick left out while events are waiting
TickCheckWhenIdle ==
    /\ phase = "check"
    /\ phase' = "run"
    /\ IF last_tick >= tick_rate /\ events = <<>>
       THEN (\E ok \in BOOLEAN : Becomes(tick(World, ok))) /\ last_tick' = 0
       ELSE UNCHANGED <<app, disk, utc, faults, writes, last_tick>>
    /\ UNCHANGED events

TickCheck ==
    /\ phase = "check"
    /\ phase' = "run"
    /\ IF last_tick >= tick_rate
       THEN (\E ok \in BOOLEAN : Becomes(tick(World, ok))) /\ last_tick' = 0
       ELSE UNCHANGED <<app, disk, utc, faults, writes, last_tick>>
    /\ UNCHANGED events

NextLoop ==
    \/ CliNone
    \/ CliFlowOf({FLOW_MINS_5})
    \/ Arrive
    \/ \E d \in {0, IdleSecs} : Elapse(d)
    \/ PollEvent
    \/ PollTimeout
    \/ TickCheck

\* the process keeps running and the clock keeps advancing, whatever arrives
SpecLoop ==
    /\ InitSession
    /\ [][NextLoop]_vars
    /\ WF_vars(PollEvent \/ PollTimeout)
    /\ WF_vars(TickCheck)
    /\ WF_vars(Elapse(IdleSecs))

\* C40: a step that reads an event
Reads == events # <<>> /\ events' = Tail(events)

\* C40: a step in which tick ran and last_tick was taken anew
Ticked == last_tick' = 0 /\ \E ok \in BOOLEAN : app' = tick(World, ok).app

\* C40: a tick is owed: a tick interval has passed since the last one
TickDue == phase \in {"run", "check"} /\ last_tick >= tick_rate

\* C40: every loop iteration at whose end a tick interval has passed since
\* the previous tick runs tick, whether or not a key was read in it; events
\* are read one per iteration, between two tick checks, oldest first, and the
\* key read is the one handled; so a tick that is owed is run whatever keeps
\* arriving, and a flow countdown does not run for ever: its session ends,
\* and ends only in a tick at expiry or by a key that was read
C40_TickNotStarved ==
    /\ [][phase = "check" /\ phase' # "check" =>
            /\ phase' = "run"
            /\ IF last_tick >= tick_rate THEN Ticked
               ELSE app' = app /\ last_tick' = last_tick]_vars
    /\ [][events' # events =>
            \/ \E e \in LoopEvents : events' = Append(events, e)
            \/ /\ Reads
               /\ phase = "run" /\ phase' \in {"check", "panic"}
               /\ IF Head(events) = <<>> THEN app' = app
                  ELSE \E ok1, ok2 \in BOOLEAN :
                        app' = handle_key_event(World, Head(events)[1], ok1, ok2).app]_vars
    /\ [][app' # app /\ phase \in {"run", "check"} =>
            \/ Reads
            \/ phase = "check" /\ Ticked
            \/ \E d \in {0, IdleSecs} : app' = Aged(app, d)]_vars
    /\ [][Running_Flow /\ ~Running_Flow' =>
            \/ Reads
            \/ Expired /\ Ticked /\ app'.flow_remaining = 0]_vars
    /\ TickDue ~> ~TickDue
    /\ Running_Flow ~> ~Running_Flow

\* C40: a flow session is running, a tick is owed, and events are waiting
C40_Witness ==
    /\ Running_Flow
    /\ TickDue
    /\ phase = "check"
    /\ Len(events) = MaxEvents

====
